---------------------------- MODULE Spec2Model ----------------------------
(***************************************************************************)
(* Height-field synthesis of the Mertin-Flemmer terrain generators         *)
(* (tools/blender/generate_dream_terrain.py, generate_epic_terrain.py,     *)
(* generate_terrain.py).                                                   *)
(*                                                                         *)
(* Numbers.  The programs compute in binary floating point; the model      *)
(* computes in fixed point:                                                *)
(*   - heights, noise values, influences and blend factors are integers in *)
(*     thousandths (Unit);                                                 *)
(*   - positions and distances are integers in tenths of a stud (PosScale);*)
(*   - noise frequencies are integers in ten-thousandths (FreqScale).      *)
(* Products and quotients round toward zero (Div).  x ** e is read from a  *)
(* table of the true curve at the eleven points 0, 0.1 .. 1 and            *)
(* interpolated linearly; cos and sin are read from a table by degrees.    *)
(***************************************************************************)
EXTENDS Integers, Sequences, FiniteSets, TLC

VARIABLES
    noiseField,   \* mathutils.noise.noise: a pure scalar field, value per cell
    call,         \* the last call of a noise primitive or pure function, its trace
    cfg,          \* WorldConfig and feature tables of the process
    hashSalt,     \* the process's string-hash key (one per run of the program)
    q,            \* SpecHeight: the last calculate_height query and its trace
    rng,          \* state of the process's global random generator
    run,          \* SpecRun: generate_dream_terrain.main, its position and data
    procs,        \* SpecProcs: two runs of generate_dream_terrain, side by side
    mesh,         \* SpecMesh: generate_terrain.create_mountain_mesh calls
    tess,         \* SpecTess: one call of create_terrain_mesh, its position and data
    edge          \* SpecEdge: the corrections of calculate_height along a ray

vars == <<noiseField, call, cfg, hashSalt, q, rng, run, procs, mesh, tess, edge>>

---------------------------------------------------------------------------
(* Fixed-point arithmetic *)

Unit == 10^3
PosScale == Unit \div 100
FreqScale == 10 * Unit

Abs(a) == IF a < 0 THEN -a ELSE a
Max(a, b) == IF a >= b THEN a ELSE b
Min(a, b) == IF a <= b THEN a ELSE b

\* a / b rounded toward zero (b # 0)
Div(a, b) ==
    IF b < 0 THEN (IF a >= 0 THEN -(a \div (-b)) ELSE (-a) \div (-b))
    ELSE IF a >= 0 THEN a \div b ELSE -((-a) \div b)

\* product of two thousandths, in thousandths
MulU(a, b) == Div(a * b, Unit)

\* quotient of two numbers of the same unit, in thousandths
DivU(a, b) == Div(a * Unit, b)

RECURSIVE ISqrtSearch(_, _, _)
ISqrtSearch(lo, hi, v) ==
    IF lo >= hi THEN lo
    ELSE LET mid == (lo + hi + 1) \div 2
         IN  IF mid * mid <= v THEN ISqrtSearch(mid, hi, v)
             ELSE ISqrtSearch(lo, mid - 1, v)

\* math.sqrt, rounded down (v < 2^31)
Sqrt(v) == ISqrtSearch(0, 46340, v)

\* math.sqrt(dx ** 2 + dy ** 2), in the unit of dx and dy
Hypot(dx, dy) == Sqrt(dx * dx + dy * dy)

\* (k / 10) ** (e10 / 10) in thousandths, for the exponents the programs use
PowTable ==
    (12 :> <<0, 63, 145, 236, 333, 435, 542, 652, 765, 881, 1000>>) @@
    (13 :> <<0, 50, 123, 209, 304, 406, 515, 629, 748, 872, 1000>>) @@
    (15 :> <<0, 32, 89, 164, 253, 354, 465, 586, 716, 854, 1000>>) @@
    (18 :> <<0, 16, 55, 115, 192, 287, 399, 526, 669, 827, 1000>>) @@
    (25 :> <<0, 3, 18, 49, 101, 177, 279, 410, 572, 768, 1000>>)

\* v ** (e10 / 10) for v in [0, 1], in thousandths
Pow(v, e10) ==
    LET k  == Min(v \div 100, 9)
        lo == PowTable[e10][k + 1]
        hi == PowTable[e10][k + 2]
    IN  lo + Div((hi - lo) * (v - k * 100), 100)

\* v ** 2, in thousandths
Sq(v) == MulU(v, v)

CosTable ==
    <<1000, 1000, 999, 999, 998, 996, 995, 993, 990, 988, 985, 982, 978, 974,
      970, 966, 961, 956, 951, 946, 940, 934, 927, 921, 914, 906, 899, 891,
      883, 875, 866, 857, 848, 839, 829, 819, 809, 799, 788, 777, 766, 755,
      743, 731, 719, 707, 695, 682, 669, 656, 643, 629, 616, 602, 588, 574,
      559, 545, 530, 515, 500, 485, 469, 454, 438, 423, 407, 391, 375, 358,
      342, 326, 309, 292, 276, 259, 242, 225, 208, 191, 174, 156, 139, 122,
      105, 87, 70, 52, 35, 17, 0>>

\* math.cos of an angle in degrees, in thousandths
Cos(deg) ==
    LET d == deg % 360
    IN  IF d <= 90 THEN CosTable[d + 1]
        ELSE IF d <= 180 THEN -CosTable[180 - d + 1]
        ELSE IF d <= 270 THEN -CosTable[d - 180 + 1]
        ELSE CosTable[360 - d + 1]

\* math.sin of an angle in degrees, in thousandths
Sin(deg) == Cos(deg + 270)

---------------------------------------------------------------------------
(* Noise primitives *)

\* bounds of the model
NoiseCells == 3
MaxOctaves == 3

\* the values mathutils.noise.noise takes, in thousandths: it lies in [-1, 1]
NoiseVals == {-1000, -500, 0, 500, 1000}

NoiseFields == [0 .. NoiseCells - 1 -> NoiseVals]

\* the cell of a sample point: a mixing of its three coordinates
NoiseCell(px, py, pz) ==
    (((px % 9973) * 31 + (py % 9967) * 17 + (pz % 9949) * 7) \div 7) % NoiseCells

\* mathutils.noise.noise(Vector((px, py, pz))): the field's value at the cell
\* of the sample point (coordinates in thousandths)
Noise(px, py, pz) == noiseField[NoiseCell(px, py, pz)]

\* x * frequency, in thousandths (x in tenths, frequency in ten-thousandths)
Scaled(x, frequency) == Div(x * frequency, 100)

\* mutant of simple_noise: the sample point moves with the state of the
\* global random generator
simple_noise_by_generator(x, y, z, seed) ==
    Noise(x + seed * 100 + rng, y + seed * 100, z)

\* generate_dream_terrain.simple_noise
simple_noise(x, y, z, seed) == Noise(x + seed * 100, y + seed * 100, z)

---------------------------------------------------------------------------
(* Fractal Brownian motion *)

\* generate_dream_terrain.fbm: the loop's variables before the first octave
fbm_start(a) ==
    [total |-> 0, frequency |-> Div(FreqScale, a.scale), amplitude |-> Unit,
     max_value |-> 0, samples |-> <<>>, seeds |-> <<>>, freqs |-> <<>>,
     amps |-> <<>>]

\* generate_dream_terrain.fbm: octave i of the loop
fbm_octave(a, st, i) ==
    LET n == simple_noise(Scaled(a.x, st.frequency), Scaled(a.y, st.frequency),
                          0, a.seed + i * 100)
    IN  [total     |-> st.total + MulU(n, st.amplitude),
         max_value |-> st.max_value + st.amplitude,
         amplitude |-> MulU(st.amplitude, a.persistence),
         frequency |-> MulU(st.frequency, a.lacunarity),
         samples   |-> Append(st.samples, n),
         seeds     |-> Append(st.seeds, a.seed + i * 100),
         freqs     |-> Append(st.freqs, st.frequency),
         amps      |-> Append(st.amps, st.amplitude)]

RECURSIVE fbm_loop(_, _, _)
fbm_loop(a, st, i) ==
    IF i >= a.octaves THEN st ELSE fbm_loop(a, fbm_octave(a, st, i), i + 1)

\* mutant of fbm_result: the sum is returned without the division by the sum
\* of the amplitudes
fbm_result_unnormalised(st) == st.total

\* generate_dream_terrain.fbm: total / max_value
fbm_result(st) == DivU(st.total, st.max_value)

\* generate_dream_terrain.fbm(x, y, octaves, persistence, lacunarity, scale, seed)
fbm(x, y, octaves, persistence, lacunarity, scale, seed) ==
    fbm_result(fbm_loop([x |-> x, y |-> y, octaves |-> octaves,
                         persistence |-> persistence, lacunarity |-> lacunarity,
                         scale |-> scale, seed |-> seed],
                        fbm_start([scale |-> scale]), 0))

\* generate_epic_terrain.fbm: octave of the loop (x, y, z, seed in thousandths;
\* frequency in thousandths; every octave adds the same seed)
epic_fbm_octave(a, st, i) ==
    LET n == Noise(MulU(a.x, st.frequency) + a.seed,
                   MulU(a.y, st.frequency) + a.seed, a.z + a.seed)
    IN  [total     |-> st.total + MulU(n, st.amplitude),
         max_value |-> st.max_value + st.amplitude,
         amplitude |-> MulU(st.amplitude, a.persistence),
         frequency |-> MulU(st.frequency, a.lacunarity),
         samples   |-> Append(st.samples, n),
         seeds     |-> Append(st.seeds, a.seed),
         freqs     |-> Append(st.freqs, st.frequency),
         amps      |-> Append(st.amps, st.amplitude)]

RECURSIVE epic_fbm_loop(_, _, _)
epic_fbm_loop(a, st, i) ==
    IF i >= a.octaves THEN st
    ELSE epic_fbm_loop(a, epic_fbm_octave(a, st, i), i + 1)

\* generate_epic_terrain.fbm: the loop's variables before the first octave
epic_fbm_start ==
    [total |-> 0, frequency |-> Unit, amplitude |-> Unit, max_value |-> 0,
     samples |-> <<>>, seeds |-> <<>>, freqs |-> <<>>, amps |-> <<>>]

\* generate_epic_terrain.fbm: total / max_value
epic_fbm_result(st) == DivU(st.total, st.max_value)

\* generate_epic_terrain.fbm(x, y, z, octaves, persistence, lacunarity, seed)
epic_fbm(x, y, z, octaves, persistence, lacunarity, seed) ==
    epic_fbm_result(epic_fbm_loop([x |-> x, y |-> y, z |-> z, octaves |-> octaves,
                                   persistence |-> persistence,
                                   lacunarity |-> lacunarity, seed |-> seed],
                                  epic_fbm_start, 0))

\* generate_terrain.fbm_noise(x, y, octaves, persistence, lacunarity, seed):
\* the loop of generate_epic_terrain.fbm with z = 0
fbm_noise(x, y, octaves, persistence, lacunarity, seed) ==
    epic_fbm(x, y, 0, octaves, persistence, lacunarity, seed)

---------------------------------------------------------------------------
(* Ridged noise *)

\* mutant of RidgeFold: the folded value is multiplied by the raw sample
\* instead of by itself
RidgeFold_raw_product(n) == MulU(Unit - Abs(n), n)

\* n = 1.0 - abs(n); n = n * n
RidgeFold(n) == Sq(Unit - Abs(n))

\* the ridged loops' variables before the first octave
ridged_start(frequency) ==
    [total |-> 0, frequency |-> frequency, amplitude |-> Unit, prev |-> Unit,
     samples |-> <<>>, terms |-> <<>>]

\* generate_dream_terrain.ridged_multifractal: octave i of the loop
ridged_octave(a, st, i) ==
    LET s == simple_noise(Scaled(a.x, st.frequency), Scaled(a.y, st.frequency),
                          0, a.seed + i * 50)
        n == MulU(RidgeFold(s), st.prev)
    IN  [total     |-> st.total + MulU(n, st.amplitude),
         prev      |-> n,
         amplitude |-> MulU(st.amplitude, 500),
         frequency |-> MulU(st.frequency, 2200),
         samples   |-> Append(st.samples, s),
         terms     |-> Append(st.terms, n)]

RECURSIVE ridged_loop(_, _, _)
ridged_loop(a, st, i) ==
    IF i >= a.octaves THEN st ELSE ridged_loop(a, ridged_octave(a, st, i), i + 1)

\* generate_dream_terrain.ridged_multifractal: the loop's final variables
ridged_run(x, y, octaves, scale, seed) ==
    ridged_loop([x |-> x, y |-> y, octaves |-> octaves, seed |-> seed],
                ridged_start(Div(FreqScale, scale)), 0)

\* generate_dream_terrain.ridged_multifractal(x, y, octaves, scale, seed)
ridged_multifractal(x, y, octaves, scale, seed) ==
    ridged_run(x, y, octaves, scale, seed).total

\* generate_epic_terrain.ridged_multifractal: octave of the loop
epic_ridged_octave(a, st, i) ==
    LET s == Noise(MulU(a.x, st.frequency) + a.seed,
                   MulU(a.y, st.frequency) + a.seed, Div(a.seed, 10))
        n == MulU(RidgeFold(s), st.prev)
    IN  [total     |-> st.total + MulU(n, st.amplitude),
         prev      |-> n,
         amplitude |-> MulU(st.amplitude, 500),
         frequency |-> MulU(st.frequency, 2100),
         samples   |-> Append(st.samples, s),
         terms     |-> Append(st.terms, n)]

RECURSIVE epic_ridged_loop(_, _, _)
epic_ridged_loop(a, st, i) ==
    IF i >= a.octaves THEN st
    ELSE epic_ridged_loop(a, epic_ridged_octave(a, st, i), i + 1)

\* generate_epic_terrain.ridged_multifractal: the loop's final variables
epic_ridged_run(x, y, octaves, seed) ==
    epic_ridged_loop([x |-> x, y |-> y, octaves |-> octaves, seed |-> seed],
                     ridged_start(Unit), 0)

\* generate_epic_terrain.ridged_multifractal(x, y, octaves, seed)
epic_ridged_multifractal(x, y, octaves, seed) ==
    epic_ridged_run(x, y, octaves, seed).total

\* generate_terrain.ridged_noise: octave of the loop (no weighting by the
\* previous octave: prev stays at its start value and is never read)
ridged_noise_octave(a, st, i) ==
    LET s == Noise(MulU(a.x, st.frequency) + a.seed,
                   MulU(a.y, st.frequency) + a.seed, Div(a.seed, 2))
        n == RidgeFold(s)
    IN  [total     |-> st.total + MulU(n, st.amplitude),
         prev      |-> st.prev,
         amplitude |-> MulU(st.amplitude, 500),
         frequency |-> MulU(st.frequency, 2000),
         samples   |-> Append(st.samples, s),
         terms     |-> Append(st.terms, n)]

RECURSIVE ridged_noise_loop(_, _, _)
ridged_noise_loop(a, st, i) ==
    IF i >= a.octaves THEN st
    ELSE ridged_noise_loop(a, ridged_noise_octave(a, st, i), i + 1)

\* generate_terrain.ridged_noise: the loop's final variables
ridged_noise_run(x, y, octaves, seed) ==
    ridged_noise_loop([x |-> x, y |-> y, octaves |-> octaves, seed |-> seed],
                      ridged_start(Unit), 0)

\* generate_terrain.ridged_noise(x, y, octaves, seed)
ridged_noise(x, y, octaves, seed) == ridged_noise_run(x, y, octaves, seed).total

---------------------------------------------------------------------------
(* Configuration of generate_dream_terrain.py *)

WORLD_SIZE == 3000
WATER_LEVEL == -8
SEED == 42069
SPAWN_RADIUS == 100
SPAWN_MIN_HEIGHT == 5
FALLOFF_FLOOR == -50
MAX_VALLEY_DEPTH == 40

MOUNTAIN_RANGES ==
    << [name |-> "The Frozen Sentinels", center |-> <<400, -500>>, radius |-> 500,
        peak_height |-> 420, peaks |-> 5, style |-> "jagged"],
       [name |-> "Shadow's Teeth", center |-> <<500, -200>>, radius |-> 400,
        peak_height |-> 350, peaks |-> 4, style |-> "ridged"],
       [name |-> "The Ember Crown", center |-> <<250, 300>>, radius |-> 350,
        peak_height |-> 300, peaks |-> 3, style |-> "volcanic"],
       [name |-> "Giants' Throne", center |-> <<450, 450>>, radius |-> 550,
        peak_height |-> 450, peaks |-> 6, style |-> "massive"],
       [name |-> "The Broken Spine", center |-> <<-400, 350>>, radius |-> 300,
        peak_height |-> 200, peaks |-> 8, style |-> "eroded"] >>

RIVER_VALLEYS ==
    << [start |-> <<-500, -400>>, end |-> <<-100, 400>>, width |-> 60,
        name |-> "Serpent's Flow"],
       [start |-> <<100, -300>>, end |-> <<350, 300>>, width |-> 40,
        name |-> "Whispering Waters"],
       [start |-> <<-300, 100>>, end |-> <<200, 400>>, width |-> 50,
        name |-> "Shadow Creek"] >>

---------------------------------------------------------------------------
(* Python's hash() of a str *)

\* bounds of the model: the number of hash keys a process may draw beyond 0,
\* and half the span of the hash values (CPython: 2^63)
MaxSalt == 2
HashHalf == 500

\* the characters of a range name, folded to a number
NameCode ==
    ("The Frozen Sentinels" :> 1) @@ ("Shadow's Teeth" :> 2) @@
    ("The Ember Crown" :> 3) @@ ("Giants' Throne" :> 4) @@
    ("The Broken Spine" :> 5) @@ ("High" :> 6) @@ ("Low" :> 7) @@
    ("Summit" :> 8)

\* hash(name) for suffix 0 and hash(name + str(i)) for suffix i + 1, under the
\* process's key: a keyed hash, signed, the same for the whole process
PyHash(salt, name, suffix) ==
    (((NameCode[name] * 37 + suffix * 11 + 5) * (2 * salt + 1) * 7919 + salt * 131)
        % (2 * HashHalf)) - HashHalf

---------------------------------------------------------------------------
(* Feature field: valleys *)

\* num / den in thousandths for 0 < num < den, den < 2^31
Ratio(num, den) ==
    IF den < 2 * 10^6 THEN Div(num * Unit, den)
    ELSE Min(Unit, Div(num, Div(den, Unit)))

\* mutant of distance_to_line_segment: t is not clamped to [0, 1], the
\* distance is the one to the whole line through the two end points
distance_to_line_segment_unclamped(px, py, x1, y1, x2, y2) ==
    LET dx == x2 - x1
        dy == y2 - y1
        length_sq == dx * dx + dy * dy
        t == Div(((px - x1) * dx + (py - y1) * dy) * Unit, length_sq)
        proj_x == x1 + MulU(t, dx)
        proj_y == y1 + MulU(t, dy)
    IN  IF length_sq = 0 THEN Hypot(px - x1, py - y1)
        ELSE Hypot(px - proj_x, py - proj_y)

\* generate_dream_terrain.distance_to_line_segment (tenths of a stud)
distance_to_line_segment(px, py, x1, y1, x2, y2) ==
    LET dx == x2 - x1
        dy == y2 - y1
        length_sq == dx * dx + dy * dy
        dot == (px - x1) * dx + (py - y1) * dy
        t == IF dot <= 0 THEN 0
             ELSE IF dot >= length_sq THEN Unit
             ELSE Ratio(dot, length_sq)
        proj_x == x1 + MulU(t, dx)
        proj_y == y1 + MulU(t, dy)
    IN  IF length_sq = 0 THEN Hypot(px - x1, py - y1)
        ELSE Hypot(px - proj_x, py - proj_y)

\* the distance from (x, y) to a valley's segment
ValleyDist(valley, x, y) ==
    distance_to_line_segment(x, y,
        valley.start[1] * PosScale, valley.start[2] * PosScale,
        valley.end[1] * PosScale, valley.end[2] * PosScale)

\* calculate_valley_depth, the body of the if: the parabolic profile of a
\* valley of the given width at distance dist < 2 * width
ValleyProfile(dist, width) ==
    LET influence == Unit - DivU(dist, width * 2 * PosScale)
    IN  Div(influence * influence * MAX_VALLEY_DEPTH, Unit)

\* calculate_valley_depth, one valley: the depth it proposes (0: none)
ValleyDepthOf(valley, x, y) ==
    LET dist == ValleyDist(valley, x, y)
    IN  IF dist < valley.width * 2 * PosScale
        THEN ValleyProfile(dist, valley.width)
        ELSE 0

\* mutant of ValleyBlend: the valleys' depths are summed
ValleyBlend_sum(min_depth, depth) == min_depth + depth

\* calculate_valley_depth: min_depth = max(min_depth, depth)
ValleyBlend(min_depth, depth) == Max(min_depth, depth)

RECURSIVE valley_loop(_, _, _, _, _)
valley_loop(valleys, k, min_depth, x, y) ==
    IF k > Len(valleys) THEN min_depth
    ELSE valley_loop(valleys, k + 1,
                     ValleyBlend(min_depth, ValleyDepthOf(valleys[k], x, y)), x, y)

\* generate_dream_terrain.calculate_valley_depth(x, y) over RIVER_VALLEYS
calculate_valley_depth(valleys, x, y) == valley_loop(valleys, 1, 0, x, y)

---------------------------------------------------------------------------
(* Feature field: mountain ranges *)

\* max(0, 1.0 - dist / radius)
Influence(dist, radius) == Max(0, Unit - DivU(dist, radius * PosScale))

\* calculate_mountain_height: seed=SEED + hash(mtn["name"])
RangeSeed(mtn, salt) == SEED + PyHash(salt, mtn.name, 0)

\* mutant of StylePeak: the erosion factor of an eroded range is the bare
\* 0.3 * fbm, without the 0.5 it is added to (the other styles are shaped
\* like the volcanic cone)
StylePeak_eroded_signed(mtn, salt, influence, x, y) ==
    IF mtn.style = "eroded"
    THEN MulU(Pow(influence, 18),
              MulU(fbm(x, y, 5, 500, 2000, 100, RangeSeed(mtn, salt)), 300))
    ELSE Pow(influence, 25)

\* mutant of StylePeak: the crater of a volcanic range starts on the rim,
\* at influence >= 0.9 (the other styles are shaped like the volcanic cone)
StylePeak_crater_from_rim(mtn, salt, influence, x, y) ==
    IF influence >= 900 THEN MulU(Pow(influence, 25), 800)
    ELSE Pow(influence, 25)

\* calculate_mountain_height: the style-specific shaping of the influence
StylePeak(mtn, salt, influence, x, y) ==
    LET seed == RangeSeed(mtn, salt)
    IN  CASE mtn.style = "jagged" ->
               MulU(Pow(influence, 15),
                    700 + MulU(ridged_multifractal(x, y, 6, 150, seed), 500))
          [] mtn.style = "ridged" ->
               MulU(Pow(influence, 13),
                    600 + MulU(ridged_multifractal(x, y, 5, 200, seed), 600))
          [] mtn.style = "volcanic" ->
               IF influence > 900 THEN MulU(Pow(influence, 25), 800)
               ELSE Pow(influence, 25)
          [] mtn.style = "massive" ->
               MulU(Pow(influence, 12),
                    800 + MulU(ridged_multifractal(x, y, 4, 300, seed), 300))
          [] OTHER ->
               MulU(Pow(influence, 18),
                    500 + MulU(fbm(x, y, 5, 500, 2000, 100, seed), 300))

\* mutant of PrimaryHeight: the influence is one minus dist / (1.5 * radius),
\* the gate's radius, and the peak is half as high
PrimaryHeight_gate_radius(mtn, salt, x, y) ==
    LET dist == Hypot(x - mtn.center[1] * PosScale, y - mtn.center[2] * PosScale)
    IN  StylePeak(mtn, salt, Influence(dist, Div(mtn.radius * 3, 2)), x, y)
            * Div(mtn.peak_height, 2)

\* calculate_mountain_height: height = peak * mtn["peak_height"]
PrimaryHeight(mtn, salt, x, y) ==
    LET dist == Hypot(x - mtn.center[1] * PosScale, y - mtn.center[2] * PosScale)
    IN  StylePeak(mtn, salt, Influence(dist, mtn.radius), x, y) * mtn.peak_height

\* the angle of sub-peak i in degrees:
\* (i / peaks) * 2 pi + hash(name + str(i)) * 0.1
SubPeakAngle(mtn, salt, i) ==
    Div(i * 360, mtn.peaks) + Div(PyHash(salt, mtn.name, i + 1) * 5730, Unit)

\* the remainder of C's integer division, with the sign of the dividend
TruncRem(a, b) == a - b * Div(a, b)

\* mutant of SubPeakDist: the hash is reduced with the remainder of C
SubPeakDist_signed_remainder(mtn, salt, i) ==
    Div(mtn.radius * PosScale
            * (300 + 5 * TruncRem(PyHash(salt, mtn.name, i + 1), 100)),
        Unit)

\* the distance of sub-peak i from the centre:
\* radius * (0.3 + (hash(name + str(i)) % 100) / 200)
SubPeakDist(mtn, salt, i) ==
    Div(mtn.radius * PosScale * (300 + 5 * (PyHash(salt, mtn.name, i + 1) % 100)),
        Unit)

\* the position (peak_x, peak_y) of sub-peak i
SubPeakPos(mtn, salt, i) ==
    LET angle == SubPeakAngle(mtn, salt, i)
        peak_dist == SubPeakDist(mtn, salt, i)
    IN  << mtn.center[1] * PosScale + MulU(Cos(angle), peak_dist),
           mtn.center[2] * PosScale + MulU(Sin(angle), peak_dist) >>

\* the sub-peaks the loop `for i in range(mtn["peaks"])` goes through, in
\* order: angle, peak_dist and (peak_x, peak_y) of each
SubPeaks(mtn, salt) ==
    [n \in 1 .. mtn.peaks |->
        [angle |-> SubPeakAngle(mtn, salt, n - 1),
         peak_dist |-> SubPeakDist(mtn, salt, n - 1),
         pos |-> SubPeakPos(mtn, salt, n - 1)]]

\* mutant of SubPeakHeight: the bump falls off linearly, sub_influence is not
\* squared
SubPeakHeight_linear(mtn, salt, i, x, y) ==
    LET pos == SubPeakPos(mtn, salt, i)
        sub_dist == Hypot(x - pos[1], y - pos[2])
        sub_radius == Div(mtn.radius * PosScale * 300, Unit)
    IN  IF sub_dist < sub_radius
        THEN MulU((Unit - DivU(sub_dist, sub_radius)) * mtn.peak_height, 600)
        ELSE 0

\* the bump of sub-peak i at (x, y): sub_height, or 0 outside sub_radius
SubPeakHeight(mtn, salt, i, x, y) ==
    LET pos == SubPeakPos(mtn, salt, i)
        sub_dist == Hypot(x - pos[1], y - pos[2])
        sub_radius == Div(mtn.radius * PosScale * 300, Unit)
    IN  IF sub_dist < sub_radius
        THEN MulU(Sq(Unit - DivU(sub_dist, sub_radius)) * mtn.peak_height, 600)
        ELSE 0

RECURSIVE subpeak_loop(_, _, _, _, _, _)
subpeak_loop(mtn, salt, i, height, x, y) ==
    IF i >= mtn.peaks THEN height
    ELSE subpeak_loop(mtn, salt, i + 1,
                      Max(height, SubPeakHeight(mtn, salt, i, x, y)), x, y)

\* mutant of InRange: the range is skipped from dist = radius on
InRange_within_radius(mtn, x, y) ==
    Hypot(x - mtn.center[1] * PosScale, y - mtn.center[2] * PosScale)
        < mtn.radius * PosScale

\* calculate_mountain_height: dist < radius * 1.5
InRange(mtn, x, y) ==
    Hypot(x - mtn.center[1] * PosScale, y - mtn.center[2] * PosScale)
        < Div(mtn.radius * PosScale * 1500, Unit)

\* calculate_mountain_height, one range: its height after the sub-peaks, or
\* 0 when the range is skipped
RangeHeight(mtn, salt, x, y) ==
    IF InRange(mtn, x, y)
    THEN subpeak_loop(mtn, salt, 0, PrimaryHeight(mtn, salt, x, y), x, y)
    ELSE 0

\* mutant of RangeBlend: the ranges' heights are summed
RangeBlend_sum(total_height, height) == total_height + height

\* calculate_mountain_height: total_height = max(total_height, height)
RangeBlend(total_height, height) == Max(total_height, height)

RECURSIVE mountain_loop(_, _, _, _, _, _)
mountain_loop(ranges, salt, k, total_height, x, y) ==
    IF k > Len(ranges) THEN total_height
    ELSE mountain_loop(ranges, salt, k + 1,
                       RangeBlend(total_height, RangeHeight(ranges[k], salt, x, y)),
                       x, y)

\* generate_dream_terrain.calculate_mountain_height(x, y) over MOUNTAIN_RANGES
calculate_mountain_height(ranges, salt, x, y) ==
    mountain_loop(ranges, salt, 1, 0, x, y)

---------------------------------------------------------------------------
(* Height-field synthesizer *)

\* generate_dream_terrain.domain_warp(x, y, strength, scale, seed)
domain_warp(x, y, strength, scale, seed) ==
    LET warp_x == MulU(MulU(fbm(x + 1000 * PosScale, y + 1000 * PosScale,
                                3, 500, 2000, scale, seed), strength),
                       scale * PosScale)
        warp_y == MulU(MulU(fbm(x + 2000 * PosScale, y + 2000 * PosScale,
                                3, 500, 2000, scale, seed + 100), strength),
                       scale * PosScale)
    IN  <<x + warp_x, y + warp_y>>

\* mutant of Falloff: the distance into the band is divided by the inner
\* width, half_size * 0.8, instead of by the band's width
Falloff_inner_width(world_size, x, y) ==
    LET half_size == Div(world_size * PosScale, 2)
        edge_dist == Max(Abs(x), Abs(y))
        inner == Div(half_size * 800, Unit)
    IN  IF edge_dist > inner
        THEN Max(0, Unit - DivU(edge_dist - inner, inner))
        ELSE Unit

\* mutant of Falloff: the factor grows across the band, from 0 at its inner
\* edge to 1 at the world's edge
Falloff_rising(world_size, x, y) ==
    LET half_size == Div(world_size * PosScale, 2)
        edge_dist == Max(Abs(x), Abs(y))
        inner == Div(half_size * 800, Unit)
        band == Div(half_size * 200, Unit)
    IN  IF edge_dist > inner
        THEN Min(Unit, DivU(edge_dist - inner, band))
        ELSE Unit

\* calculate_height: the edge falloff factor at (x, y), in thousandths
\* (1000 where the if is not taken)
Falloff(world_size, x, y) ==
    LET half_size == Div(world_size * PosScale, 2)
        edge_dist == Max(Abs(x), Abs(y))
        inner == Div(half_size * 800, Unit)
        band == Div(half_size * 200, Unit)
    IN  IF edge_dist > inner
        THEN Max(0, Unit - DivU(edge_dist - inner, band))
        ELSE Unit

\* mutant of EdgeFalloff: the height is scaled by the falloff and nothing
\* is subtracted
EdgeFalloff_scale_only(height, world_size, x, y) ==
    MulU(height, Falloff(world_size, x, y))

\* calculate_height: height *= falloff; height -= (1 - falloff) * 50
EdgeFalloff(height, world_size, x, y) ==
    LET falloff == Falloff(world_size, x, y)
    IN  IF Max(Abs(x), Abs(y)) > Div(Div(world_size * PosScale, 2) * 800, Unit)
        THEN MulU(height, falloff) + (Unit - falloff) * FALLOFF_FLOOR
        ELSE height

\* calculate_height: spawn_dist < 100
InSpawn(x, y) == Hypot(x, y) < SPAWN_RADIUS * PosScale

\* mutant of SpawnClamp: the floor of the spawn area holds everywhere
SpawnClamp_everywhere(height, x, y) == Max(height, SPAWN_MIN_HEIGHT * Unit)

\* mutant of SpawnClamp: the spawn distance is taken as |x| + |y|
SpawnClamp_manhattan(height, x, y) ==
    IF Abs(x) + Abs(y) < SPAWN_RADIUS * PosScale
    THEN Max(height, SPAWN_MIN_HEIGHT * Unit)
    ELSE height

\* calculate_height: if spawn_dist < 100: height = max(height, 5)
SpawnClamp(height, x, y) ==
    IF InSpawn(x, y) THEN Max(height, SPAWN_MIN_HEIGHT * Unit) ELSE height

\* generate_dream_terrain.calculate_height(x, y) with the values it computes
\* on the way: the coordinate each layer is sampled at, the layers, the
\* sub-peaks gone through for each range that passes the gate, the sum, and
\* the value after each correction
height_trace(c, salt, x, y) ==
    LET w == domain_warp(x, y, 300, 600, SEED)
        at == [base |-> w, hills |-> w, detail |-> w,
               mountains |-> <<x, y>>, valley_depth |-> <<x, y>>]
        base == fbm(at.base[1], at.base[2], 4, 500, 2000, 800, SEED) * 25
                    + 15 * Unit
        hills == fbm(at.hills[1], at.hills[2], 5, 500, 2000, 300, SEED + 1000) * 40
        detail == fbm(at.detail[1], at.detail[2], 6, 500, 2000, 80, SEED + 2000) * 10
        mountains == calculate_mountain_height(c.ranges, salt,
                                               at.mountains[1], at.mountains[2])
        valley_depth == calculate_valley_depth(c.valleys,
                                               at.valley_depth[1], at.valley_depth[2])
        sum == base + hills + detail + mountains - valley_depth
        edged == EdgeFalloff(sum, c.world_size, x, y)
        subpeaks == [k \in 1 .. Len(c.ranges) |->
                        IF InRange(c.ranges[k], at.mountains[1], at.mountains[2])
                        THEN SubPeaks(c.ranges[k], salt)
                        ELSE <<>>]
    IN  [x |-> x, y |-> y, warped |-> w, at |-> at, subpeaks |-> subpeaks,
         base |-> base, hills |-> hills, detail |-> detail,
         mountains |-> mountains, valley_depth |-> valley_depth,
         sum |-> sum, edged |-> edged,
         result |-> SpawnClamp(edged, x, y)]

\* generate_dream_terrain.calculate_height(x, y)
calculate_height(c, salt, x, y) == height_trace(c, salt, x, y).result

---------------------------------------------------------------------------
(* SpecNoise: the noise primitives applied to drawn arguments *)

\* values of the variables a specification does not use
Unused == [unused |-> TRUE]

NoisePoints == {<<0, 0>>, <<4000, -5000>>}
Persistences == {100, 500, 900}
Lacunarities == {2000, 2200}
NoiseScales == {150, 800}
NoiseSeeds == {0, 42069}

FbmArgs ==
    [x : {p[1] : p \in NoisePoints}, y : {p[2] : p \in NoisePoints},
     octaves : 1 .. MaxOctaves, persistence : Persistences,
     lacunarity : Lacunarities, scale : NoiseScales, seed : NoiseSeeds]

EpicFbmArgs ==
    [x : {p[1] : p \in NoisePoints}, y : {p[2] : p \in NoisePoints}, z : {0},
     octaves : 1 .. MaxOctaves, persistence : Persistences,
     lacunarity : Lacunarities, seed : NoiseSeeds]

RidgedArgs ==
    [x : {p[1] : p \in NoisePoints}, y : {p[2] : p \in NoisePoints},
     octaves : 0 .. MaxOctaves, scale : NoiseScales, seed : NoiseSeeds]

EpicRidgedArgs ==
    [x : {p[1] : p \in NoisePoints}, y : {p[2] : p \in NoisePoints},
     octaves : 0 .. MaxOctaves, seed : NoiseSeeds]

NoiseCall(fn, a) == [fn |-> fn, a |-> a, done |-> FALSE, st |-> <<>>, result |-> 0]

WarpArgs ==
    [x : {p[1] : p \in NoisePoints}, y : {p[2] : p \in NoisePoints},
     strength : {300, 400}, scale : NoiseScales, seed : NoiseSeeds]

NoiseCalls ==
    {NoiseCall("domain_warp", a) : a \in WarpArgs} \cup
    {NoiseCall("fbm", a) : a \in FbmArgs}
    \cup {NoiseCall("epic_fbm", a) : a \in EpicFbmArgs}
    \cup {NoiseCall("fbm_noise", a) : a \in EpicFbmArgs}
    \cup {NoiseCall("ridged_multifractal", a) : a \in RidgedArgs}
    \cup {NoiseCall("epic_ridged_multifractal", a) : a \in EpicRidgedArgs}
    \cup {NoiseCall("ridged_noise", a) : a \in EpicRidgedArgs}

InitNoise ==
    /\ tess = Unused
    /\ edge = Unused
    /\ noiseField \in NoiseFields
    /\ call \in NoiseCalls
    /\ cfg = Unused
    /\ hashSalt = Unused
    /\ q = Unused
    /\ rng = Unused
    /\ run = Unused
    /\ procs = Unused
    /\ mesh = Unused

Returned(st, result) == [call EXCEPT !.done = TRUE, !.st = st, !.result = result]

Pending(fn) == call.fn = fn /\ ~call.done

CallFbm ==
    /\ Pending("fbm")
    /\ LET a == call.a
       IN  call' = Returned(fbm_loop(a, fbm_start(a), 0),
                            fbm(a.x, a.y, a.octaves, a.persistence, a.lacunarity,
                                a.scale, a.seed))
    /\ UNCHANGED <<noiseField, cfg, hashSalt, q, rng, run, procs, mesh, tess, edge>>

CallEpicFbm ==
    /\ Pending("epic_fbm")
    /\ LET a == call.a
       IN  call' = Returned(epic_fbm_loop(a, epic_fbm_start, 0),
                            epic_fbm(a.x, a.y, a.z, a.octaves, a.persistence,
                                     a.lacunarity, a.seed))
    /\ UNCHANGED <<noiseField, cfg, hashSalt, q, rng, run, procs, mesh, tess, edge>>

CallFbmNoise ==
    /\ Pending("fbm_noise")
    /\ LET a == call.a
       IN  call' = Returned(epic_fbm_loop(a, epic_fbm_start, 0),
                            fbm_noise(a.x, a.y, a.octaves, a.persistence,
                                      a.lacunarity, a.seed))
    /\ UNCHANGED <<noiseField, cfg, hashSalt, q, rng, run, procs, mesh, tess, edge>>

CallRidged ==
    /\ Pending("ridged_multifractal")
    /\ LET a == call.a
       IN  call' = Returned(ridged_run(a.x, a.y, a.octaves, a.scale, a.seed),
                            ridged_multifractal(a.x, a.y, a.octaves, a.scale, a.seed))
    /\ UNCHANGED <<noiseField, cfg, hashSalt, q, rng, run, procs, mesh, tess, edge>>

CallEpicRidged ==
    /\ Pending("epic_ridged_multifractal")
    /\ LET a == call.a
       IN  call' = Returned(epic_ridged_run(a.x, a.y, a.octaves, a.seed),
                            epic_ridged_multifractal(a.x, a.y, a.octaves, a.seed))
    /\ UNCHANGED <<noiseField, cfg, hashSalt, q, rng, run, procs, mesh, tess, edge>>

CallRidgedNoise ==
    /\ Pending("ridged_noise")
    /\ LET a == call.a
       IN  call' = Returned(ridged_noise_run(a.x, a.y, a.octaves, a.seed),
                            ridged_noise(a.x, a.y, a.octaves, a.seed))
    /\ UNCHANGED <<noiseField, cfg, hashSalt, q, rng, run, procs, mesh, tess, edge>>

\* generate_dream_terrain.domain_warp: the loops of the two fbm calls
domain_warp_fields(x, y, scale, seed) ==
    [x |-> fbm_loop([x |-> x + 1000 * PosScale, y |-> y + 1000 * PosScale,
                     octaves |-> 3, persistence |-> 500, lacunarity |-> 2000,
                     scale |-> scale, seed |-> seed],
                    fbm_start([scale |-> scale]), 0),
     y |-> fbm_loop([x |-> x + 2000 * PosScale, y |-> y + 2000 * PosScale,
                     octaves |-> 3, persistence |-> 500, lacunarity |-> 2000,
                     scale |-> scale, seed |-> seed + 100],
                    fbm_start([scale |-> scale]), 0)]

CallDomainWarp ==
    /\ Pending("domain_warp")
    /\ LET a == call.a
       IN  call' = Returned(domain_warp_fields(a.x, a.y, a.scale, a.seed),
                            domain_warp(a.x, a.y, a.strength, a.scale, a.seed))
    /\ UNCHANGED <<noiseField, cfg, hashSalt, q, rng, run, procs, mesh, tess, edge>>

NextNoise ==
    \/ CallDomainWarp
    \/ CallFbm
    \/ CallEpicFbm
    \/ CallFbmNoise
    \/ CallRidged
    \/ CallEpicRidged
    \/ CallRidgedNoise

SpecNoise == InitNoise /\ [][NextNoise]_vars

FbmFns == {"fbm", "epic_fbm", "fbm_noise"}
RidgedFns == {"ridged_multifractal", "epic_ridged_multifractal", "ridged_noise"}

\* C9: fBm boundedness. Every returned call of an fbm implementation
\* (octaves >= 1, persistence in (0,1), noise samples in [-1,1]) returns a
\* value in [-1, 1], the weighted sum being divided by the sum of the
\* amplitudes used.
C9_FbmBounded ==
    (call.done /\ call.fn \in FbmFns) =>
        /\ call.result >= -Unit
        /\ call.result <= Unit
        /\ Abs(call.st.total) <= call.st.max_value

\* C9 witness: a call of several octaves with persistence below 1 whose
\* samples are all 1 has returned exactly 1: the sum of the amplitudes, not
\* the first amplitude, is the divisor.
C9_Witness ==
    /\ call.done /\ call.fn = "fbm"
    /\ call.a.octaves >= 2
    /\ call.st.total > Unit
    /\ call.result = Unit

\* C10: ridge non-negativity. Every returned call of a ridged function
\* (octaves >= 0) returns a value >= 0 and every per-octave folded term it
\* added is >= 0.
C10_RidgedNonNegative ==
    (call.done /\ call.fn \in RidgedFns) =>
        /\ call.result >= 0
        /\ \A i \in 1 .. Len(call.st.terms) : call.st.terms[i] >= 0

\* C10 witness: a ridged call of several octaves that sampled a negative
\* noise value has returned a positive total.
C10_Witness ==
    /\ call.done /\ call.fn = "ridged_multifractal"
    /\ call.a.octaves >= 2
    /\ \E i \in 1 .. Len(call.st.samples) : call.st.samples[i] < 0 /\ call.st.terms[i] > 0
    /\ call.result > 0

---------------------------------------------------------------------------
(* SpecHeight: calculate_height queried at the points of a scenario *)

\* a point given in studs, in tenths of a stud
Studs(x, y) == <<x * PosScale, y * PosScale>>

\* the shipped world, sampled on a coarse lattice, in the falloff band, where
\* two valleys overlap and around the spawn region
ShippedScenario ==
    [c |-> [world_size |-> WORLD_SIZE, ranges |-> MOUNTAIN_RANGES,
            valleys |-> RIVER_VALLEYS],
     points |-> << Studs(-1500, -1500), Studs(1500, -1500), Studs(-1500, 1500),
                   Studs(1500, 1500), Studs(0, 0), Studs(99, 0), Studs(100, 0),
                   Studs(400, -500), Studs(500, -200), Studs(250, 300),
                   Studs(450, 450), Studs(-400, 350), Studs(450, -350),
                   Studs(-229, 143), Studs(-300, 0), Studs(225, 0),
                   Studs(1200, 0), Studs(1201, 0), Studs(1350, 450),
                   Studs(0, -1499), Studs(900, 900), Studs(620, -640) >>]

\* features that reach into the spawn region: a range and a valley at the
\* origin, and a valley alone
SpawnRange ==
    [name |-> "High", center |-> <<0, 0>>, radius |-> 300, peak_height |-> 100,
     peaks |-> 2, style |-> "volcanic"]

SpawnValley == [start |-> <<-200, 0>>, end |-> <<200, 0>>, width |-> 30, name |-> "Low"]

SpawnPoints ==
    << Studs(0, 0), Studs(99, 0), Studs(100, 0), Studs(70, 70), Studs(71, 71),
       <<0, -999>>, <<0, 1001>>, Studs(-60, 20) >>

SpawnScenarios ==
    { [c |-> [world_size |-> WORLD_SIZE, ranges |-> r, valleys |-> v],
       points |-> SpawnPoints] :
         r \in {<<>>, <<SpawnRange>>}, v \in {<<>>, <<SpawnValley>>} }

\* worlds of other sizes, queried at their four corners and at the middle of
\* an edge (half_size in tenths is world_size * PosScale / 2)
WorldSizes == {1, 100, 141, 142, 200, 1000}

CornerPoints(world_size) ==
    LET h == Div(world_size * PosScale, 2)
    IN  << <<h, h>>, <<-h, h>>, <<h, -h>>, <<-h, -h>>, <<h, 0>> >>

WorldScenarios ==
    { [c |-> [world_size |-> ws, ranges |-> <<SpawnRange>>, valleys |-> <<>>],
       points |-> CornerPoints(ws)] : ws \in WorldSizes }

\* two ranges with the same centre, of peak heights 100 and 50
HighRange(style) ==
    [name |-> "High", center |-> <<600, 0>>, radius |-> 200, peak_height |-> 100,
     peaks |-> 1, style |-> style]

LowRange(style) ==
    [name |-> "Low", center |-> <<600, 0>>, radius |-> 200, peak_height |-> 50,
     peaks |-> 1, style |-> style]

BlendScenarios ==
    { [c |-> [world_size |-> WORLD_SIZE, ranges |-> r, valleys |-> <<>>],
       points |-> << Studs(600, 0), Studs(650, 0), Studs(600, -120),
                     Studs(760, 0), Studs(600, 299), Studs(600, 300) >>] :
         r \in { <<HighRange("jagged"), LowRange("jagged")>>,
                 <<LowRange("jagged"), HighRange("massive")>>,
                 <<HighRange("volcanic"), LowRange("volcanic")>>,
                 <<HighRange("eroded")>> } }

\* one valley from (0,0) to (100,0) of width 10, approached along the
\* perpendicular through (50, 0)
CarveValley == [start |-> <<0, 0>>, end |-> <<100, 0>>, width |-> 10, name |-> "Low"]

CarveScenario ==
    [c |-> [world_size |-> WORLD_SIZE, ranges |-> <<>>, valleys |-> <<CarveValley>>],
     points |-> << Studs(50, 30), Studs(50, 21), Studs(50, 20), <<500, 199>>,
                   Studs(50, 15), Studs(50, 10), Studs(50, 5), <<500, 1>>,
                   Studs(50, 0), Studs(130, 0), Studs(-10, 0) >>]

Scenarios ==
    {ShippedScenario, CarveScenario} \cup SpawnScenarios \cup WorldScenarios
        \cup BlendScenarios

NoTrace == [x |-> 0, y |-> 0]

\* the noise fields of the height queries: the extremes and the middle of
\* the noise range in every cell
HeightNoiseFields == [0 .. NoiseCells - 1 -> {-1000, 0, 1000}]

InitHeight ==
    /\ tess = Unused
    /\ edge = Unused
    /\ noiseField \in HeightNoiseFields
    /\ hashSalt \in 0 .. MaxSalt
    /\ \E s \in Scenarios :
          /\ cfg = s.c
          /\ q = [points |-> s.points, n |-> 0, t |-> NoTrace, prev |-> NoTrace]
    /\ call = Unused
    /\ rng = Unused
    /\ run = Unused
    /\ procs = Unused
    /\ mesh = Unused

\* one call of calculate_height, at the scenario's next point
Query ==
    /\ q.n < Len(q.points)
    /\ LET p == q.points[q.n + 1]
       IN  q' = [q EXCEPT !.n = q.n + 1,
                          !.t = height_trace(cfg, hashSalt, p[1], p[2]),
                          !.prev = q.t]
    /\ UNCHANGED <<noiseField, call, cfg, hashSalt, rng, run, procs, mesh, tess, edge>>

NextHeight == Query

SpecHeight == InitHeight /\ [][NextHeight]_vars

\* a query has returned
Queried == q.n > 0

\* the point of the last query
Qx == q.t.x
Qy == q.t.y

\* sqrt(x^2 + y^2) < 100, stated on the squares
WithinSpawnRadius(x, y) ==
    x * x + y * y < (SPAWN_RADIUS * PosScale) * (SPAWN_RADIUS * PosScale)

\* C1: spawn safety. At every queried point within the spawn radius, whatever
\* the ranges, valleys and noise, calculate_height returns at least 5, and
\* exactly 5 when the value before the clamp (layer sum, then edge falloff)
\* is below 5; the clamp only ever raises the value it is given.
C1_SpawnSafety ==
    (Queried /\ WithinSpawnRadius(Qx, Qy)) =>
        /\ q.t.result >= SPAWN_MIN_HEIGHT * Unit
        /\ (q.t.edged < SPAWN_MIN_HEIGHT * Unit => q.t.result = SPAWN_MIN_HEIGHT * Unit)
        /\ q.t.result >= q.t.edged

\* C1 witness: a point within the spawn radius where a valley is carved and
\* the value before the clamp is below 5 has been returned as exactly 5.
C1_Witness ==
    /\ Queried /\ WithinSpawnRadius(Qx, Qy)
    /\ q.t.valley_depth > 0
    /\ q.t.edged < SPAWN_MIN_HEIGHT * Unit
    /\ q.t.result = SPAWN_MIN_HEIGHT * Unit

\* (x, y) is an extreme corner of the world
IsCorner(x, y) ==
    /\ 2 * Abs(x) = cfg.world_size * PosScale
    /\ 2 * Abs(y) = cfg.world_size * PosScale

\* C2 as stated: edge closure for every positive world_size. The value
\* returned at each extreme world corner is at most the falloff floor -50.
C2_EdgeClosure_AnyWorld ==
    (Queried /\ IsCorner(Qx, Qy)) => q.t.result <= FALLOFF_FLOOR * Unit

\* C2 as amended: at an extreme corner that lies outside the spawn radius the
\* falloff factor is 0 and the returned value is the falloff floor -50,
\* whatever the layers sum to, and so is below WATER_LEVEL; at a corner
\* within the spawn radius the spawn clamp, applied last, returns 5.
C2_EdgeClosure ==
    (Queried /\ IsCorner(Qx, Qy)) =>
        /\ FALLOFF_FLOOR < WATER_LEVEL
        /\ ~WithinSpawnRadius(Qx, Qy) =>
              /\ Falloff(cfg.world_size, Qx, Qy) = 0
              /\ q.t.result <= FALLOFF_FLOOR * Unit
              /\ q.t.result < WATER_LEVEL * Unit
        /\ WithinSpawnRadius(Qx, Qy) => q.t.result = SPAWN_MIN_HEIGHT * Unit

\* C2 witness: at a corner outside the spawn radius a positive layer sum has
\* been brought down to the floor.
C2_Witness ==
    /\ Queried /\ IsCorner(Qx, Qy) /\ ~WithinSpawnRadius(Qx, Qy)
    /\ q.t.sum > 0
    /\ q.t.result = FALLOFF_FLOOR * Unit

Layers == {"base", "hills", "detail", "mountains", "valley_depth"}

\* C6 as stated: single warped coordinate. Within one query every layer of
\* the sum (base, hills, detail, mountains, valley depth) is sampled at the
\* warped coordinate domain_warp returned, none at the unwarped (x, y).
C6_SingleWarpedCoordinate ==
    (Queried /\ cfg.ranges # <<>> /\ cfg.valleys # <<>>) =>
        \A l \in Layers : q.t.at[l] = q.t.warped

\* C6 divergence: a query inside a range whose warped coordinate differs from
\* (x, y) sampled the noise layers at the warped coordinate and the mountains
\* at (x, y)
C6_LayersDiverge ==
    /\ Queried /\ q.t.mountains > 0
    /\ q.t.warped # <<Qx, Qy>>
    /\ q.t.at["base"] = q.t.warped
    /\ q.t.at["mountains"] = <<Qx, Qy>>

SetMax(S) == CHOOSE m \in S : \A v \in S : v <= m

\* each range's own contribution at the queried point
RangeContributions ==
    {RangeHeight(cfg.ranges[k], hashSalt, Qx, Qy) : k \in 1 .. Len(cfg.ranges)}

\* the configuration holds two ranges with the same centre, of peak heights
\* 100 and 50, and the query is at that centre
AtSharedCentre ==
    /\ Len(cfg.ranges) = 2
    /\ cfg.ranges[1].center = cfg.ranges[2].center
    /\ {cfg.ranges[1].peak_height, cfg.ranges[2].peak_height} = {100, 50}
    /\ <<Qx, Qy>> = Studs(cfg.ranges[1].center[1], cfg.ranges[1].center[2])

\* the range of peak height h among two
RangeOfHeight(h) ==
    IF cfg.ranges[1].peak_height = h THEN cfg.ranges[1] ELSE cfg.ranges[2]

\* the contribution at the queried point of the range of peak height h alone
Alone(h) == RangeHeight(RangeOfHeight(h), hashSalt, Qx, Qy)

\* calculate_mountain_height is the maximum of the ranges' contributions
MountainsAreMax ==
    /\ q.t.mountains = SetMax(RangeContributions \cup {0})
    /\ \A h \in RangeContributions : q.t.mountains >= h
    /\ cfg.ranges # <<>> => q.t.mountains <= SetMax(RangeContributions)

\* C7 as stated: mountain max-blend. The mountain contribution is the maximum
\* over the ranges of each range's own contribution (0 when none reaches the
\* point), and at the shared centre of two ranges of peak heights 100 and 50
\* it is the value the 100-range alone would give.
C7_MaxBlend_HighAlone ==
    Queried =>
        /\ MountainsAreMax
        /\ AtSharedCentre => q.t.mountains = Alone(100)

\* C7 as amended: the mountain contribution is the maximum over the ranges of
\* each range's own contribution (0 when none reaches the point); at the
\* shared centre of two ranges of peak heights 100 and 50 it is the larger of
\* the two contributions, so at least what the 100-range alone gives and
\* strictly less than the sum of the two.
C7_MaxBlend ==
    Queried =>
        /\ MountainsAreMax
        /\ AtSharedCentre =>
              /\ q.t.mountains = Max(Alone(100), Alone(50))
              /\ q.t.mountains >= Alone(100)
              /\ q.t.mountains < Alone(100) + Alone(50)

\* C7 witness: at the shared centre both ranges contribute and the result is
\* the 100-range's contribution.
C7_Witness ==
    /\ Queried /\ AtSharedCentre
    /\ Alone(100) > 0 /\ Alone(50) > 0
    /\ q.t.mountains = Alone(100)

\* each valley's own depth at the queried point
ValleyDepths ==
    {ValleyDepthOf(cfg.valleys[k], Qx, Qy) : k \in 1 .. Len(cfg.valleys)}

\* the query lies beside the valley from (0,0) to (100,0) of width 10, at
\* perpendicular distance |y|
BesideCarveValley(t) ==
    /\ cfg.valleys = <<CarveValley>>
    /\ t.x >= 0 /\ t.x <= 100 * PosScale
    /\ "valley_depth" \in DOMAIN t

\* C8: valley carving. A valley's depth is 0 at distance >= 2 * width and lies
\* in [0, 40] below it, 40 at distance 0; calculate_valley_depth is the
\* maximum of the valleys' depths, never their sum. Beside the valley from
\* (0,0) to (100,0) of width 10 the depth at perpendicular distance d is
\* (1 - d/20)^2 * 40: 0 at d = 30, positive at d = 5, 40 at d = 0 only, and
\* strictly larger at the nearer of two successive queries within 2 * width.
C8_ValleyCarving ==
    Queried =>
        /\ q.t.valley_depth = SetMax(ValleyDepths \cup {0})
        /\ \A k \in 1 .. Len(cfg.valleys) :
              LET v == cfg.valleys[k]
                  dist == ValleyDist(v, Qx, Qy)
                  depth == ValleyDepthOf(v, Qx, Qy)
              IN  /\ dist >= 2 * v.width * PosScale => depth = 0
                  /\ depth >= 0 /\ depth <= MAX_VALLEY_DEPTH * Unit
                  /\ dist = 0 => depth = MAX_VALLEY_DEPTH * Unit
        /\ BesideCarveValley(q.t) =>
              LET d == Abs(Qy)
              IN  /\ d >= 200 => q.t.valley_depth = 0
                  /\ d < 200 => q.t.valley_depth = (200 - d) * (200 - d)
                  /\ d = 300 => q.t.valley_depth = 0
                  /\ d = 50 => q.t.valley_depth > 0
                  /\ q.t.valley_depth = MAX_VALLEY_DEPTH * Unit <=> d = 0
        /\ (BesideCarveValley(q.t) /\ BesideCarveValley(q.prev)
                /\ Abs(Qy) < Abs(q.prev.y) /\ Abs(Qy) < 200) =>
              q.t.valley_depth > q.prev.valley_depth

\* C8 witness: beside the valley of width 10 a query at distance 5 has
\* followed one at distance 10 and found the valley deeper.
C8_Witness ==
    /\ Queried /\ BesideCarveValley(q.t) /\ BesideCarveValley(q.prev)
    /\ Abs(Qy) = 50 /\ Abs(q.prev.y) = 100
    /\ q.t.valley_depth > q.prev.valley_depth /\ q.prev.valley_depth > 0

\* two valleys overlap at the queried point (used to see that the blend of
\* depths is reached with two positive depths)
ValleysOverlap == Cardinality({k \in 1 .. Len(cfg.valleys) :
                     ValleyDepthOf(cfg.valleys[k], Qx, Qy) > 0}) >= 2

---------------------------------------------------------------------------
(* The global random generator (module random) *)

\* bound of the model: the generator starts in one of MaxRngSeed + 1 states
MaxRngSeed == 1

\* the generator's states and its step: a linear congruential generator in
\* the place of the Mersenne Twister, seeded by the system at import
RngMod == 65537

RngStep(s) == (s * 75 + 74) % RngMod

\* the generator's state after k draws
RECURSIVE RngAfter(_, _)
RngAfter(s, k) == IF k = 0 THEN s ELSE RngAfter(RngStep(s), k - 1)

\* random.random() as the k-th draw from state s: a value in [0, 1), in
\* thousandths
random_random(s, k) == Div(RngAfter(s, k) * Unit, RngMod)

\* random.uniform(a, b) and random.randint(a, b) computed from the draw r
random_uniform(a, b, r) == a + Div((b - a) * r, Unit)
random_randint(a, b, r) == a + Div((b - a + 1) * r, Unit)

---------------------------------------------------------------------------
(* SpecRun: generate_dream_terrain.main, from the grid pass to the props *)

\* bounds of the model: the grid's resolution (200 in the program) and the
\* number of flower sample points per side (50 in the program)
RESOLUTION == 4
FLOWER_SAMPLES == 4

FLOWER_LIMIT == 500

\* create_ancient_ruins: ruin_positions, in studs
RUIN_POSITIONS ==
    << <<200, -150>>, <<-250, 200>>, <<100, 350>>, <<-400, -200>>, <<350, 100>> >>

\* create_terrain_mesh: -half_size + i * step, in tenths
GridCoord(i) ==
    Div(WORLD_SIZE * PosScale * i, RESOLUTION) - Div(WORLD_SIZE * PosScale, 2)

\* create_valley_flowers: int(step) and the k-th value of
\* range(-int(half_size), int(half_size), int(step)), in studs
FlowerIntStep == WORLD_SIZE \div FLOWER_SAMPLES
FlowerCoord(k) == k * FlowerIntStep - WORLD_SIZE \div 2
FlowerRangeLen ==
    (2 * (WORLD_SIZE \div 2) + FlowerIntStep - 1) \div FlowerIntStep

\* create_valley_flowers: step / 2, in tenths
FlowerHalfStep == Div(Div(WORLD_SIZE * PosScale, FLOWER_SAMPLES), 2)

\* the height the run's process computes at (x, y)
RunHeight(x, y) == calculate_height(cfg, hashSalt, x, y)

\* the run's record of a call of calculate_height: the call counted, kept as
\* the last call and remembered with its arguments
Called(r, kind, x, y, value) ==
    [r EXCEPT !.calls = r.calls + 1,
              !.last = [kind |-> kind, x |-> x, y |-> y, value |-> value,
                        draws |-> r.draws],
              !.memo = r.memo \cup {<<x, y, value>>}]

\* the run's record after k draws from the global generator
Drew(r, k) == [r EXCEPT !.draws = r.draws + k]

RunNoiseFields == [0 .. NoiseCells - 1 -> {-500, 500}]

InitRun ==
    /\ tess = Unused
    /\ edge = Unused
    /\ noiseField \in RunNoiseFields
    /\ hashSalt \in {0, MaxSalt}
    /\ rng \in 0 .. MaxRngSeed
    /\ cfg = ShippedScenario.c
    /\ run = [pc |-> "grid", ix |-> 0, iy |-> 0, heights |-> <<>>,
              row_heights |-> <<>>, verts |-> <<>>, faces |-> <<>>,
              kx |-> 0, ky |-> 0, cluster |-> 0, flower_count |-> 0,
              ruin |-> 1, pillars |-> 0, calls |-> 0, draws |-> 0,
              last |-> [kind |-> "none", x |-> 0, y |-> 0, value |-> 0,
                        draws |-> 0],
              memo |-> {}]
    /\ call = Unused
    /\ q = Unused
    /\ procs = Unused
    /\ mesh = Unused

\* create_terrain_mesh: one iteration of the vertex loop
GridVertex ==
    /\ run.pc = "grid"
    /\ \E x \in {GridCoord(run.ix)}, y \in {GridCoord(run.iy)} :
       \E height \in {RunHeight(x, y)} :
       \E r \in {[Called(run, "grid", x, y, height) EXCEPT
                     !.verts = Append(run.verts, <<x, y, height>>)]} :
          run' = IF run.ix < RESOLUTION
                 THEN [r EXCEPT !.row_heights = Append(run.row_heights, height),
                                !.ix = run.ix + 1]
                 ELSE [r EXCEPT !.row_heights = <<>>,
                                !.heights = Append(run.heights,
                                                Append(run.row_heights, height)),
                                !.ix = 0,
                                !.iy = IF run.iy < RESOLUTION THEN run.iy + 1
                                       ELSE 0,
                                !.pc = IF run.iy < RESOLUTION THEN "grid"
                                       ELSE "faces"]
    /\ UNCHANGED <<noiseField, call, cfg, hashSalt, q, rng, procs, mesh, tess, edge>>

\* create_terrain_mesh: one iteration of the face loop
GridFace ==
    /\ run.pc = "faces"
    /\ LET i == run.iy * (RESOLUTION + 1) + run.ix
           face == <<i, i + 1, i + RESOLUTION + 2, i + RESOLUTION + 1>>
           lastx == run.ix = RESOLUTION - 1
           lasty == run.iy = RESOLUTION - 1
       IN  run' = [run EXCEPT
                      !.faces = Append(run.faces, face),
                      !.ix = IF lastx THEN 0 ELSE run.ix + 1,
                      !.iy = IF lastx THEN (IF lasty THEN 0 ELSE run.iy + 1)
                             ELSE run.iy,
                      !.pc = IF lastx /\ lasty THEN "scenery" ELSE "faces"]
    /\ UNCHANGED <<noiseField, call, cfg, hashSalt, q, rng, procs, mesh, tess, edge>>

\* main: create_snow_caps and create_water_surface, which neither sample the
\* height field nor draw from the generator
CreateScenery ==
    /\ run.pc = "scenery"
    /\ run' = [run EXCEPT !.pc = "flowers"]
    /\ UNCHANGED <<noiseField, call, cfg, hashSalt, q, rng, procs, mesh, tess, edge>>

\* create_valley_flowers: the position after the sample point (kx, ky)
NextSample(r) ==
    IF r.ky + 1 < FlowerRangeLen THEN [r EXCEPT !.ky = r.ky + 1]
    ELSE IF r.kx + 1 < FlowerRangeLen THEN [r EXCEPT !.kx = r.kx + 1, !.ky = 0]
    ELSE [r EXCEPT !.pc = "ruins"]

\* create_valley_flowers: one sample point of the double loop, up to the
\* draw of the cluster's size
FlowerSample ==
    /\ run.pc = "flowers"
    /\ \E x \in {FlowerCoord(run.kx) * PosScale},
          y \in {FlowerCoord(run.ky) * PosScale} :
       \E height \in {RunHeight(x, y)} :
       \E r \in {Called(run, "sample", x, y, height)} :
          IF height < 40 * Unit /\ height > (WATER_LEVEL + 5) * Unit
          THEN /\ run' = [Drew(r, 1) EXCEPT
                             !.cluster = random_randint(5, 15, random_random(rng, 1)),
                             !.pc = "cluster"]
               /\ rng' = RngAfter(rng, 1)
          ELSE /\ run' = NextSample(r)
               /\ rng' = rng
    /\ UNCHANGED <<noiseField, call, cfg, hashSalt, q, procs, mesh, tess, edge>>

\* create_valley_flowers: one flower of a cluster
FlowerPlant ==
    /\ run.pc = "cluster"
    /\ \E fx \in {FlowerCoord(run.kx) * PosScale
                      + random_uniform(-FlowerHalfStep, FlowerHalfStep,
                                       random_random(rng, 1))},
          fy \in {FlowerCoord(run.ky) * PosScale
                      + random_uniform(-FlowerHalfStep, FlowerHalfStep,
                                       random_random(rng, 2))} :
       \E fh \in {RunHeight(fx, fy)} :
       \E planted \in {fh < 40 * Unit /\ fh > (WATER_LEVEL + 3) * Unit} :
       \E k \in {IF planted THEN 4 ELSE 2},
          count \in {IF planted THEN run.flower_count + 1 ELSE run.flower_count} :
       \E r \in {[Drew(Called(run, "flower", fx, fy, fh), k) EXCEPT
                     !.flower_count = count, !.cluster = run.cluster - 1]} :
          /\ run' = IF planted /\ count >= FLOWER_LIMIT
                    THEN [r EXCEPT !.pc = "ruins"]
                    ELSE IF r.cluster = 0
                         THEN NextSample([r EXCEPT !.pc = "flowers"])
                         ELSE r
          /\ rng' = RngAfter(rng, k)
    /\ UNCHANGED <<noiseField, call, cfg, hashSalt, q, procs, mesh, tess, edge>>

\* create_ancient_ruins: the position after the ruin site r.ruin
NextRuin(r) ==
    IF r.ruin < Len(RUIN_POSITIONS) THEN [r EXCEPT !.ruin = r.ruin + 1, !.pc = "ruins"]
    ELSE [r EXCEPT !.pc = "finish"]

\* create_ancient_ruins: one ruin site, up to the draw of its pillar count
RuinSite ==
    /\ run.pc = "ruins"
    /\ \E rx \in {RUIN_POSITIONS[run.ruin][1] * PosScale},
          ry \in {RUIN_POSITIONS[run.ruin][2] * PosScale} :
       \E height \in {RunHeight(rx, ry)} :
       \E r \in {Called(run, "ruin", rx, ry, height)} :
          IF height > (WATER_LEVEL + 5) * Unit /\ height < 150 * Unit
          THEN /\ run' = [Drew(r, 1) EXCEPT
                             !.pillars = random_randint(2, 5, random_random(rng, 1)),
                             !.pc = "pillars"]
               /\ rng' = RngAfter(rng, 1)
          ELSE /\ run' = NextRuin(r)
               /\ rng' = rng
    /\ UNCHANGED <<noiseField, call, cfg, hashSalt, q, procs, mesh, tess, edge>>

\* create_ancient_ruins: one pillar of a ruin site
RuinPillar ==
    /\ run.pc = "pillars"
    /\ \E angle \in {Div(random_random(rng, 1) * 360, Unit)},
          dist \in {random_uniform(8 * PosScale, 15 * PosScale,
                                   random_random(rng, 2))} :
       \E px \in {RUIN_POSITIONS[run.ruin][1] * PosScale + MulU(Cos(angle), dist)},
          py \in {RUIN_POSITIONS[run.ruin][2] * PosScale + MulU(Sin(angle), dist)} :
       \E ph \in {RunHeight(px, py)} :
       \E r \in {[Drew(Called(run, "pillar", px, py, ph), 5) EXCEPT
                     !.pillars = run.pillars - 1]} :
          /\ run' = IF r.pillars = 0 THEN NextRuin(r) ELSE r
          /\ rng' = RngAfter(rng, 5)
    /\ UNCHANGED <<noiseField, call, cfg, hashSalt, q, procs, mesh, tess, edge>>

\* main: lighting, sky, renders and export, which read the objects made
Finish ==
    /\ run.pc = "finish"
    /\ run' = [run EXCEPT !.pc = "done"]
    /\ UNCHANGED <<noiseField, call, cfg, hashSalt, q, rng, procs, mesh, tess, edge>>

NextRun ==
    \/ GridVertex
    \/ GridFace
    \/ CreateScenery
    \/ FlowerSample
    \/ FlowerPlant
    \/ RuinSite
    \/ RuinPillar
    \/ Finish

SpecRun == InitRun /\ [][NextRun]_vars

\* the grid pass is over
GridDone == run.pc \notin {"grid"}

\* the grid indices whose vertex is the point (x, y)
GridIndexOf(x, y) ==
    {ij \in (0 .. RESOLUTION) \X (0 .. RESOLUTION) :
        GridCoord(ij[1]) = x /\ GridCoord(ij[2]) = y}

\* C3: purity within a run. The value a call of calculate_height returns for
\* (x, y) equals the value every earlier call of the run returned for the
\* same (x, y), however many calls and draws from the global generator lie
\* between; a re-query at a grid point after the grid pass returns the value
\* stored in heights[iy][ix].
C3_PurityWithinRun ==
    run.calls > 0 =>
        /\ \A m \in run.memo :
              (m[1] = run.last.x /\ m[2] = run.last.y) => m[3] = run.last.value
        /\ (GridDone /\ run.last.kind # "grid") =>
              \A ij \in GridIndexOf(run.last.x, run.last.y) :
                  run.heights[ij[2] + 1][ij[1] + 1] = run.last.value

\* C3 witness: after the grid pass and after draws from the global generator,
\* a flower sample point that is a grid vertex was re-queried and got the
\* stored value.
C3_Witness ==
    /\ GridDone /\ run.last.kind = "sample" /\ run.last.draws > 0
    /\ run.calls > (RESOLUTION + 1) * (RESOLUTION + 1) + 1
    /\ \E ij \in GridIndexOf(run.last.x, run.last.y) :
          run.heights[ij[2] + 1][ij[1] + 1] = run.last.value

---------------------------------------------------------------------------
(* SpecProcs: two runs of generate_dream_terrain.py with one configuration *)

Procs == {1, 2}

\* the points both runs query: in and around the shipped ranges, at the
\* origin and in the open
ProcPoints ==
    << Studs(400, -500), Studs(500, -200), Studs(250, 300), Studs(450, 450),
       Studs(-400, 350), Studs(0, 0), Studs(-900, -900) >>

\* each run is a process of its own: it draws its string-hash key at start
InitProcs ==
    /\ tess = Unused
    /\ edge = Unused
    /\ noiseField \in RunNoiseFields
    /\ cfg = ShippedScenario.c
    /\ procs \in [Procs -> [salt : 0 .. MaxSalt, n : {0}, t : {NoTrace}]]
    /\ call = Unused
    /\ hashSalt = Unused
    /\ q = Unused
    /\ rng = Unused
    /\ run = Unused
    /\ mesh = Unused

\* run p calls calculate_height at its next point
ProcQuery(p) ==
    /\ procs[p].n < Len(ProcPoints)
    /\ LET pt == ProcPoints[procs[p].n + 1]
       IN  procs' = [procs EXCEPT
                        ![p] = [salt |-> procs[p].salt, n |-> procs[p].n + 1,
                                t |-> height_trace(cfg, procs[p].salt, pt[1], pt[2])]]
    /\ UNCHANGED <<noiseField, call, cfg, hashSalt, q, rng, run, mesh, tess, edge>>

NextProcs == \E p \in Procs : ProcQuery(p)

SpecProcs == InitProcs /\ [][NextProcs]_vars

\* the values a run derives from hash(): per range the noise seed, and per
\* sub-peak the angle and the distance from the centre
HashDerived(salt) ==
    [k \in 1 .. Len(cfg.ranges) |->
        [seed |-> RangeSeed(cfg.ranges[k], salt),
         angles |-> [i \in 0 .. cfg.ranges[k].peaks - 1 |->
                        SubPeakAngle(cfg.ranges[k], salt, i)],
         dists |-> [i \in 0 .. cfg.ranges[k].peaks - 1 |->
                        SubPeakDist(cfg.ranges[k], salt, i)]]]

\* C4: no hidden state across runs. Two runs with the same configuration
\* that have queried the same point hold the same height for it, and the
\* noise seeds and sub-peak angles and distances they derive from hash() of
\* the range names are the same.
C4_SameAcrossRuns ==
    (procs[1].n = procs[2].n /\ procs[1].n > 0) =>
        /\ procs[1].t.result = procs[2].t.result
        /\ HashDerived(procs[1].salt) = HashDerived(procs[2].salt)

\* C4 divergence: both runs have queried the same point and hold different
\* heights for it
C4_RunsDiverge ==
    /\ procs[1].n = procs[2].n /\ procs[1].n > 0
    /\ procs[1].t.result # procs[2].t.result

---------------------------------------------------------------------------
(* generate_terrain.py: create_mountain_mesh *)

\* bound of the model: the mesh grid's resolution (64 in the program)
TERRAIN_RESOLUTION == 4

NOISE_OCTAVES == 6
NOISE_PERSISTENCE == 500
NOISE_LACUNARITY == 2000

\* generate_terrain.MOUNTAINS (roughness in thousandths)
MOUNTAINS ==
    << [name |-> "Frozen_Peaks", size |-> 400, height |-> 350, roughness |-> 700,
        peaks |-> 3],
       [name |-> "Shadow_Mountains", size |-> 350, height |-> 300,
        roughness |-> 800, peaks |-> 4],
       [name |-> "Ember_Ridge", size |-> 300, height |-> 250, roughness |-> 600,
        peaks |-> 2],
       [name |-> "The_Giants", size |-> 450, height |-> 400, roughness |-> 750,
        peaks |-> 5],
       [name |-> "Broken_Hills", size |-> 250, height |-> 150, roughness |-> 500,
        peaks |-> 6] >>

\* generate_terrain.domain_warp(x, y, strength, seed) (x, y, seed in
\* thousandths)
terrain_domain_warp(x, y, strength, seed) ==
    << x + MulU(fbm_noise(x + 100 * Unit, y + 100 * Unit, 3, NOISE_PERSISTENCE,
                          NOISE_LACUNARITY, seed), strength),
       y + MulU(fbm_noise(x + 200 * Unit, y + 200 * Unit, 3, NOISE_PERSISTENCE,
                          NOISE_LACUNARITY, seed + 50 * Unit), strength) >>

\* create_mountain_mesh: half_size and the grid coordinate -half_size + i * step,
\* in tenths
MeshHalfSize(m) == Div(m.size * PosScale, 2)
MeshCoord(m, i) == Div(m.size * PosScale * i, TERRAIN_RESOLUTION) - MeshHalfSize(m)

\* create_mountain_mesh: peak i of the peak loop, computed from three draws
\* of the global generator in state s: (px, py, peak_height)
MeshPeakAt(m, i, s) ==
    LET angle == Div(360 * i, m.peaks) + random_uniform(-17, 17, random_random(s, 1))
        dist == MulU(random_uniform(100, 400, random_random(s, 2)), MeshHalfSize(m))
    IN  << MulU(Cos(angle), dist), MulU(Sin(angle), dist),
           random_uniform(700, 1000, random_random(s, 3)) >>

\* create_mountain_mesh: h after the noise layers, from the warped point
MeshNoiseHeight(m, seed, wx, wy) ==
    MulU(Div(fbm_noise(wx * 3, wy * 3, NOISE_OCTAVES, NOISE_PERSISTENCE,
                       NOISE_LACUNARITY, seed), 2) + 500, 600)
        + MulU(MulU(ridged_noise(wx * 2, wy * 2, 4, seed + 100 * Unit),
                    m.roughness), 400)

\* create_mountain_mesh: h = max(h, influence * peak_height) over the peaks
RECURSIVE MeshPeakLoop(_, _, _, _, _, _)
MeshPeakLoop(m, peaks, k, h, x, y) ==
    IF k > Len(peaks) THEN h
    ELSE LET dist == Hypot(x - peaks[k][1], y - peaks[k][2])
             influence == Sq(Max(0, Unit - DivU(dist, Div(MeshHalfSize(m) * 800, Unit))))
         IN  MeshPeakLoop(m, peaks, k + 1, Max(h, MulU(influence, peaks[k][3])), x, y)

\* create_mountain_mesh: falloff = max(0, 1 - dist_from_center ** 1.5)
MeshFalloff(m, x, y) ==
    LET dist_from_center == DivU(Hypot(x, y), MeshHalfSize(m))
    IN  IF dist_from_center >= Unit THEN 0 ELSE Unit - Pow(dist_from_center, 15)

\* create_mountain_mesh: the vertex (x, y, z) at the grid point (x, y)
MeshVertexAt(m, seed, peaks, x, y) ==
    LET w == terrain_domain_warp(DivU(x, m.size * PosScale),
                                 DivU(y, m.size * PosScale), 400, seed)
        h == MeshPeakLoop(m, peaks, 1, MeshNoiseHeight(m, seed, w[1], w[2]), x, y)
    IN  <<x, y, MulU(h, MeshFalloff(m, x, y)) * m.height>>

---------------------------------------------------------------------------
(* SpecMesh: a process that calls create_mountain_mesh job after job *)

\* a call's arguments: the mountain and the seed, <<>> for seed=None
MeshJob(k, seed) == [mountain |-> MOUNTAINS[k], seed |-> seed]

\* the calls of generate_all_terrain, and one call made twice
MeshJobLists ==
    { [k \in 1 .. Len(MOUNTAINS) |-> MeshJob(k, <<(k - 1) * 1000>>)],
      << MeshJob(1, <<0>>), MeshJob(1, <<0>>) >>,
      << MeshJob(3, <<2000>>), MeshJob(3, <<2000>>) >>,
      << MeshJob(3, <<>>), MeshJob(5, <<1000>>), MeshJob(5, <<1000>>) >> }

InitMesh ==
    /\ tess = Unused
    /\ edge = Unused
    /\ noiseField \in HeightNoiseFields
    /\ rng \in 0 .. MaxRngSeed
    /\ \E jobs \in MeshJobLists :
          mesh = [jobs |-> jobs, job |-> 1, pc |-> "start", seed |-> 0, i |-> 0,
                  ix |-> 0, iy |-> 0, peak_positions |-> <<>>, verts |-> <<>>,
                  faces |-> <<>>, made |-> <<>>]
    /\ call = Unused
    /\ cfg = Unused
    /\ hashSalt = Unused
    /\ q = Unused
    /\ run = Unused
    /\ procs = Unused

\* the mountain of the call in progress
MeshMountain == mesh.jobs[mesh.job].mountain

\* create_mountain_mesh: entry, up to the creation of the empty mesh
MeshStart ==
    /\ mesh.pc = "start"
    /\ LET given == mesh.jobs[mesh.job].seed
       IN  IF given = <<>>
           THEN /\ mesh' = [mesh EXCEPT
                               !.seed = random_randint(0, 10000, random_random(rng, 1)),
                               !.pc = "peaks"]
                /\ rng' = RngAfter(rng, 1)
           ELSE /\ mesh' = [mesh EXCEPT !.seed = given[1], !.pc = "peaks"]
                /\ rng' = rng
    /\ UNCHANGED <<noiseField, call, cfg, hashSalt, q, run, procs, tess, edge>>

\* create_mountain_mesh: one iteration of the peak loop
MeshPeak ==
    /\ mesh.pc = "peaks"
    /\ mesh' = [mesh EXCEPT
                   !.peak_positions = Append(@, MeshPeakAt(MeshMountain, mesh.i, rng)),
                   !.i = IF mesh.i + 1 < MeshMountain.peaks THEN mesh.i + 1 ELSE 0,
                   !.pc = IF mesh.i + 1 < MeshMountain.peaks THEN "peaks" ELSE "verts"]
    /\ rng' = RngAfter(rng, 3)
    /\ UNCHANGED <<noiseField, call, cfg, hashSalt, q, run, procs, tess, edge>>

\* create_mountain_mesh: one iteration of the vertex loop
MeshVertex ==
    /\ mesh.pc = "verts"
    /\ LET lastx == mesh.ix = TERRAIN_RESOLUTION
           lasty == mesh.iy = TERRAIN_RESOLUTION
       IN  mesh' = [mesh EXCEPT
                       !.verts = Append(@, MeshVertexAt(MeshMountain, mesh.seed * Unit,
                                                        mesh.peak_positions,
                                                        MeshCoord(MeshMountain, mesh.ix),
                                                        MeshCoord(MeshMountain, mesh.iy))),
                       !.ix = IF lastx THEN 0 ELSE mesh.ix + 1,
                       !.iy = IF lastx THEN (IF lasty THEN 0 ELSE mesh.iy + 1)
                              ELSE mesh.iy,
                       !.pc = IF lastx /\ lasty THEN "faces" ELSE "verts"]
    /\ UNCHANGED <<noiseField, call, cfg, hashSalt, q, rng, run, procs, tess, edge>>

\* create_mountain_mesh: one iteration of the face loop
MeshFace ==
    /\ mesh.pc = "faces"
    /\ LET i == mesh.iy * (TERRAIN_RESOLUTION + 1) + mesh.ix
           lastx == mesh.ix = TERRAIN_RESOLUTION - 1
           lasty == mesh.iy = TERRAIN_RESOLUTION - 1
       IN  mesh' = [mesh EXCEPT
                       !.faces = Append(@, <<i, i + 1, i + TERRAIN_RESOLUTION + 2,
                                             i + TERRAIN_RESOLUTION + 1>>),
                       !.ix = IF lastx THEN 0 ELSE mesh.ix + 1,
                       !.iy = IF lastx THEN (IF lasty THEN 0 ELSE mesh.iy + 1)
                              ELSE mesh.iy,
                       !.pc = IF lastx /\ lasty THEN "finish" ELSE "faces"]
    /\ UNCHANGED <<noiseField, call, cfg, hashSalt, q, rng, run, procs, tess, edge>>

\* create_mountain_mesh: the mesh is written and returned; the caller goes
\* on to its next call
MeshFinish ==
    /\ mesh.pc = "finish"
    /\ mesh' = [mesh EXCEPT
                   !.made = Append(@, [job |-> mesh.jobs[mesh.job], seed |-> mesh.seed,
                                       peak_positions |-> mesh.peak_positions,
                                       verts |-> mesh.verts, faces |-> mesh.faces]),
                   !.peak_positions = <<>>, !.verts = <<>>, !.faces = <<>>,
                   !.job = IF mesh.job < Len(mesh.jobs) THEN mesh.job + 1 ELSE mesh.job,
                   !.pc = IF mesh.job < Len(mesh.jobs) THEN "start" ELSE "done"]
    /\ UNCHANGED <<noiseField, call, cfg, hashSalt, q, rng, run, procs, tess, edge>>

NextMesh ==
    \/ MeshStart
    \/ MeshPeak
    \/ MeshVertex
    \/ MeshFace
    \/ MeshFinish

SpecMesh == InitMesh /\ [][NextMesh]_vars

\* two finished calls that were given the same mountain and the same
\* explicit seed
SameCall(a, b) ==
    /\ a < b
    /\ mesh.made[a].job = mesh.made[b].job
    /\ mesh.made[a].job.seed # <<>>

\* C5: tessellation determinism. Two calls of create_mountain_mesh with the
\* same mountain_config and the same explicit seed produce the same peak
\* positions and peak heights and the same vertex positions.
C5_SameSeedSameMesh ==
    \A a, b \in 1 .. Len(mesh.made) :
        SameCall(a, b) =>
            /\ mesh.made[a].peak_positions = mesh.made[b].peak_positions
            /\ mesh.made[a].verts = mesh.made[b].verts

\* C5 divergence: two such calls returned meshes whose vertices differ
C5_MeshesDiverge ==
    \E a, b \in 1 .. Len(mesh.made) :
        SameCall(a, b) /\ mesh.made[a].verts # mesh.made[b].verts

---------------------------------------------------------------------------
(* SpecTess: generate_dream_terrain.create_terrain_mesh, one call of it
   under a configuration (WORLD_SIZE, RESOLUTION, MOUNTAIN_RANGES,
   RIVER_VALLEYS) the module may be edited to *)

\* bound of the model: the largest RESOLUTION a call is given
MaxTessResolution == 4

TessResolutions == -1 .. MaxTessResolution
TessWorldSizes == {-200, 0, 200}

\* one jagged range at the origin with a single sub-peak
SummitRange ==
    [name |-> "Summit", center |-> <<0, 0>>, radius |-> 80,
     peak_height |-> 100, peaks |-> 1, style |-> "jagged"]

SummitConfig(world_size) ==
    [world_size |-> world_size, ranges |-> <<SummitRange>>, valleys |-> <<>>]

TessConfigs == {SummitConfig(ws) : ws \in TessWorldSizes} \cup {ShippedScenario.c}

\* create_terrain_mesh: -half + i * step with step = WORLD_SIZE / RESOLUTION
\* and half = WORLD_SIZE / 2 (resolution # 0)
TessCoord(world_size, resolution, i) ==
    Div(world_size * PosScale * i, resolution) - Div(world_size * PosScale, 2)

\* mutant of TessVertexAt: the loops are nested the other way round, ix
\* steps along y and iy along x
TessVertexAt_column_major(c, salt, resolution, ix, iy) ==
    LET x == TessCoord(c.world_size, resolution, iy)
        y == TessCoord(c.world_size, resolution, ix)
    IN  <<x, y, calculate_height(c, salt, x, y)>>

\* create_terrain_mesh, the body of the vertex loop: the vertex
\* (x, y, calculate_height(x, y)) of column ix of row iy
TessVertexAt(c, salt, resolution, ix, iy) ==
    LET x == TessCoord(c.world_size, resolution, ix)
        y == TessCoord(c.world_size, resolution, iy)
    IN  <<x, y, calculate_height(c, salt, x, y)>>

\* mutant of TessFaceOf: the corners are listed row by row, [v1, v2, v3, v4]
TessFaceOf_row_by_row(resolution, ix, iy) ==
    LET i == iy * (resolution + 1) + ix
    IN  <<i, i + 1, i + resolution + 1, i + resolution + 2>>

\* create_terrain_mesh, the body of the face loop: bm.faces.new([v1, v2, v4, v3])
\* with v1 = i, v2 = i + 1, v3 = i + (RESOLUTION + 1), v4 = v3 + 1
TessFaceOf(resolution, ix, iy) ==
    LET i == iy * (resolution + 1) + ix
    IN  <<i, i + 1, i + resolution + 2, i + resolution + 1>>

\* noise sources that return the extremes of [-1, 1]
TessNoiseFields == [0 .. NoiseCells - 1 -> {-Unit, Unit}]

InitTess ==
    /\ noiseField \in TessNoiseFields
    /\ hashSalt \in {0, MaxSalt}
    /\ cfg \in TessConfigs
    /\ \E resolution \in TessResolutions :
          tess = [pc |-> "start", resolution |-> resolution, error |-> "none",
                  ix |-> 0, iy |-> 0, samples |-> 0, heights |-> <<>>,
                  row_heights |-> <<>>, verts |-> <<>>, faces |-> <<>>]
    /\ call = Unused
    /\ q = Unused
    /\ rng = Unused
    /\ run = Unused
    /\ procs = Unused
    /\ mesh = Unused
    /\ edge = Unused

\* create_terrain_mesh up to the vertex loop: the mesh object is made and
\* step = WORLD_SIZE / RESOLUTION is computed, which raises
\* ZeroDivisionError when RESOLUTION is 0; range(RESOLUTION + 1) is empty
\* when RESOLUTION < 0, and so is range(RESOLUTION)
TessBegin ==
    /\ tess.pc = "start"
    /\ tess' = [tess EXCEPT
                   !.pc = IF tess.resolution = 0 THEN "raised"
                          ELSE IF tess.resolution + 1 > 0 THEN "verts"
                          ELSE "smooth",
                   !.error = IF tess.resolution = 0 THEN "ZeroDivisionError"
                             ELSE "none"]
    /\ UNCHANGED <<noiseField, call, cfg, hashSalt, q, rng, run, procs, mesh, edge>>

\* create_terrain_mesh: one iteration of the vertex loop
TessVertex ==
    /\ tess.pc = "verts"
    /\ \E v \in {TessVertexAt(cfg, hashSalt, tess.resolution, tess.ix, tess.iy)} :
       \E t \in {[tess EXCEPT !.samples = tess.samples + 1,
                              !.verts = Append(tess.verts, v)]} :
          tess' = IF tess.ix < tess.resolution
                  THEN [t EXCEPT !.row_heights = Append(tess.row_heights, v[3]),
                                 !.ix = tess.ix + 1]
                  ELSE [t EXCEPT !.row_heights = <<>>,
                                 !.heights = Append(tess.heights,
                                                 Append(tess.row_heights, v[3])),
                                 !.ix = 0,
                                 !.iy = IF tess.iy < tess.resolution
                                        THEN tess.iy + 1 ELSE 0,
                                 !.pc = IF tess.iy < tess.resolution
                                        THEN "verts" ELSE "faces"]
    /\ UNCHANGED <<noiseField, call, cfg, hashSalt, q, rng, run, procs, mesh, edge>>

\* create_terrain_mesh: one iteration of the face loop; a new face is flat
TessFace ==
    /\ tess.pc = "faces"
    /\ LET face == [v |-> TessFaceOf(tess.resolution, tess.ix, tess.iy),
                    smooth |-> FALSE]
           lastx == tess.ix = tess.resolution - 1
           lasty == tess.iy = tess.resolution - 1
       IN  tess' = [tess EXCEPT
                       !.faces = Append(tess.faces, face),
                       !.ix = IF lastx THEN 0 ELSE tess.ix + 1,
                       !.iy = IF lastx THEN (IF lasty THEN 0 ELSE tess.iy + 1)
                              ELSE tess.iy,
                       !.pc = IF lastx /\ lasty THEN "smooth" ELSE "faces"]
    /\ UNCHANGED <<noiseField, call, cfg, hashSalt, q, rng, run, procs, mesh, edge>>

\* create_terrain_mesh: for face in bm.faces: face.smooth = True; the mesh
\* is written to the object and (obj, heights) is returned
TessSmooth ==
    /\ tess.pc = "smooth"
    /\ tess' = [tess EXCEPT
                   !.faces = [k \in 1 .. Len(tess.faces) |->
                                 [tess.faces[k] EXCEPT !.smooth = TRUE]],
                   !.pc = "returned"]
    /\ UNCHANGED <<noiseField, call, cfg, hashSalt, q, rng, run, procs, mesh, edge>>

NextTess ==
    \/ TessBegin
    \/ TessVertex
    \/ TessFace
    \/ TessSmooth

SpecTess == InitTess /\ [][NextTess]_vars

\* the vertex loop of the call has finished
VertsDone == tess.pc \in {"faces", "smooth", "returned"}

\* the face loop of the call has finished
FacesDone == tess.pc \in {"smooth", "returned"}

Corners(k) == {tess.faces[k].v[c] : c \in 1 .. 4}

\* vertex indices a and b are neighbours along a grid line
GridAdjacent(a, b, R) ==
    Abs((a % (R + 1)) - (b % (R + 1)))
        + Abs((a \div (R + 1)) - (b \div (R + 1))) = 1

InvalidTessConfig == tess.resolution <= 0 \/ cfg.world_size <= 0

\* C13: tessellator fail-fast. When RESOLUTION <= 0 or WORLD_SIZE <= 0 the
\* tessellation ends in a configuration error before any elevation is
\* sampled and before any vertex or face is created; it never returns a mesh.
C13_FailFast ==
    InvalidTessConfig =>
        /\ tess.samples = 0
        /\ tess.verts = <<>>
        /\ tess.faces = <<>>
        /\ tess.pc # "returned"

\* C13 divergence: a call with an invalid configuration returned a mesh that
\* is empty, or one whose vertices were sampled and all coincide
C13_DegenerateMeshReturned ==
    /\ InvalidTessConfig
    /\ tess.pc = "returned"
    /\ tess.error = "none"
    /\ \/ tess.resolution < 0 /\ tess.verts = <<>> /\ tess.faces = <<>>
       \/ /\ cfg.world_size = 0
          /\ tess.samples = 25
          /\ \A k \in 1 .. 25 : tess.verts[k][1] = 0 /\ tess.verts[k][2] = 0

\* the call tessellated the world of 200 studs with the single jagged range
\* at the origin on a 5 x 5 grid, and has returned
SummitGridReturned ==
    /\ tess.pc = "returned"
    /\ tess.resolution = 4
    /\ cfg = SummitConfig(200)

\* the elevation of grid vertex (ix, iy) of a 5 x 5 grid
SummitZ(ix, iy) == tess.verts[iy * 5 + ix + 1][3]

\* the noise source returns one value everywhere
FlatNoise == \A c \in DOMAIN noiseField : noiseField[c] = noiseField[0]

---------------------------------------------------------------------------
(* SpecConfig: calculate_height under MOUNTAIN_RANGES and RIVER_VALLEYS
   tables edited to hold one entry, valid or not *)

\* SummitRange with another radius and number of sub-peaks
RangeWith(radius, peaks) == [SummitRange EXCEPT !.radius = radius, !.peaks = peaks]

\* CarveValley with another width
ValleyWith(width) == [CarveValley EXCEPT !.width = width]

ConfigRanges ==
    {RangeWith(r, 1) : r \in {-80, 0, 80}} \cup {RangeWith(80, n) : n \in {-1, 0, 2}}

ConfigValleys == {ValleyWith(w) : w \in {-10, 0, 10}}

\* the centre of the range, a point within its radius, and points on and
\* beside the valley's segment
ConfigPoints ==
    << Studs(0, 0), Studs(30, 0), Studs(50, 0), Studs(50, 5), Studs(50, 15),
       Studs(130, 0) >>

ConfigScenarios ==
    { [c |-> [world_size |-> WORLD_SIZE, ranges |-> <<m>>, valleys |-> <<>>],
       points |-> ConfigPoints] : m \in ConfigRanges }
    \cup
    { [c |-> [world_size |-> WORLD_SIZE, ranges |-> <<>>, valleys |-> <<v>>],
       points |-> ConfigPoints] : v \in ConfigValleys }

InitConfig ==
    /\ noiseField \in RunNoiseFields
    /\ hashSalt \in 0 .. MaxSalt
    /\ \E s \in ConfigScenarios :
          /\ cfg = s.c
          /\ q = [points |-> s.points, n |-> 0, t |-> NoTrace, prev |-> NoTrace]
    /\ call = Unused
    /\ rng = Unused
    /\ run = Unused
    /\ procs = Unused
    /\ mesh = Unused
    /\ tess = Unused
    /\ edge = Unused

SpecConfig == InitConfig /\ [][NextHeight]_vars

\* a range the specification calls invalid
InvalidRange(mtn) == mtn.radius <= 0 \/ mtn.peaks < 1

\* a valley the specification calls invalid (the table's entries always
\* carry the two waypoints start and end)
InvalidValley(valley) == valley.width <= 0

\* C14: mountain configuration fail-fast. A range with radius <= 0 or with
\* a peak count < 1 is rejected with a configuration error before any
\* elevation is sampled; it is never silently accepted.
C14_InvalidRangeRejected ==
    (\E k \in 1 .. Len(cfg.ranges) : InvalidRange(cfg.ranges[k])) => q.n = 0

\* C14 divergence: calculate_height returned under a table with an invalid
\* range: a range of radius <= 0 adds nothing at its own centre, and a range
\* without sub-peaks adds its primary height
C14_InvalidRangeAccepted ==
    /\ Queried
    /\ Len(cfg.ranges) = 1
    /\ InvalidRange(cfg.ranges[1])
    /\ Qx = 0 /\ Qy = 0
    /\ \/ cfg.ranges[1].radius <= 0 /\ q.t.mountains = 0
       \/ cfg.ranges[1].peaks < 1 /\ q.t.mountains >= 700 * SummitRange.peak_height

\* C15: valley configuration fail-fast. A valley with a width <= 0 (or with
\* fewer than 2 waypoints) is rejected with a configuration error before
\* any elevation is sampled.
C15_InvalidValleyRejected ==
    (\E k \in 1 .. Len(cfg.valleys) : InvalidValley(cfg.valleys[k])) => q.n = 0

\* C15 divergence: calculate_height returned for a point on the segment of
\* a valley of width <= 0, and nothing was carved there
C15_InvalidValleyAccepted ==
    /\ Queried
    /\ Len(cfg.valleys) = 1
    /\ InvalidValley(cfg.valleys[1])
    /\ Qx = 50 * PosScale /\ Qy = 0
    /\ ValleyDist(cfg.valleys[1], Qx, Qy) = 0
    /\ q.t.valley_depth = 0

---------------------------------------------------------------------------
(* SpecRun: the order of sampling and mesh emission *)

\* the number of grid samples calculate_height has returned so far
GridSamples ==
    IF GridDone THEN (RESOLUTION + 1) * (RESOLUTION + 1)
    ELSE run.iy * (RESOLUTION + 1) + run.ix

\* C16: grid complete before mesh emission and before use. No mesh vertex
\* and no face is created until all (R+1)^2 samples of the grid have been
\* computed, and every downstream re-query of the elevation (flowers, ruins)
\* happens only after the grid pass has finished.
C16_GridBeforeMesh ==
    /\ (Len(run.verts) > 0 \/ Len(run.faces) > 0) =>
           GridSamples = (RESOLUTION + 1) * (RESOLUTION + 1)
    /\ run.last.kind \notin {"none", "grid"} => GridDone

\* C16 divergence: the mesh already holds vertices while samples of the
\* grid are still to be computed
C16_VertexBeforeGridDone ==
    /\ run.pc = "grid"
    /\ Len(run.verts) = GridSamples
    /\ Len(run.verts) >= 1
    /\ GridSamples < (RESOLUTION + 1) * (RESOLUTION + 1)
    /\ run.faces = <<>>

---------------------------------------------------------------------------
(* SpecEdge: the corrections at the end of calculate_height (edge falloff,
   then spawn clamp) applied to one layer sum at points taken outward along
   a ray from the origin *)

\* bound of the model: the number of steps the falloff band is crossed in
EdgeSteps == 8

EdgeConfigs ==
    { [world_size |-> ws, ranges |-> r, valleys |-> v] :
        ws \in {200, WORLD_SIZE}, r \in {<<>>, <<SummitRange>>},
        v \in {<<>>, <<CarveValley>>} }

\* the points whose layer sum is taken
EdgeProbes == {Studs(0, 0), Studs(50, 0), Studs(50, 15), Studs(-40, 60)}

EdgeRays == {<<1, 0>>, <<0, -1>>, <<-1, 1>>}

\* the distances max(|x|, |y|) of the points of a ray: the origin, the
\* inner edge of the band, EdgeSteps steps across the band up to half,
\* and two points beyond the world
EdgeDistances(world_size) ==
    LET half == Div(world_size * PosScale, 2)
        inner == Div(half * 800, Unit)
    IN  <<0, inner>>
        \o [k \in 1 .. EdgeSteps |-> inner + Div(k * (half - inner), EdgeSteps)]
        \o <<half + 1, 2 * half>>

\* the values calculate_height computes from the layer sum on
EdgeTrace(sum, world_size, x, y) ==
    LET edged == EdgeFalloff(sum, world_size, x, y)
    IN  [d |-> Max(Abs(x), Abs(y)), x |-> x, y |-> y, sum |-> sum,
         edged |-> edged, result |-> SpawnClamp(edged, x, y)]

InitEdge ==
    /\ noiseField \in HeightNoiseFields
    /\ hashSalt = 0
    /\ cfg \in EdgeConfigs
    /\ \E p \in EdgeProbes, ray \in EdgeRays :
          edge = [pc |-> "sum", probe |-> p, h |-> 0, ray |-> ray, n |-> 0,
                  t |-> NoTrace, prev |-> NoTrace]
    /\ call = Unused
    /\ q = Unused
    /\ rng = Unused
    /\ run = Unused
    /\ procs = Unused
    /\ mesh = Unused
    /\ tess = Unused

\* calculate_height up to the layer sum, at the probe
EdgeSum ==
    /\ edge.pc = "sum"
    /\ \E h \in {height_trace(cfg, hashSalt, edge.probe[1], edge.probe[2]).sum} :
          edge' = [edge EXCEPT !.pc = "corrections", !.h = h]
    /\ UNCHANGED <<noiseField, call, cfg, hashSalt, q, rng, run, procs, mesh, tess>>

\* the end of calculate_height at the ray's next point, for the layer sum h
EdgeStep ==
    /\ edge.pc = "corrections"
    /\ edge.n < Len(EdgeDistances(cfg.world_size))
    /\ LET d == EdgeDistances(cfg.world_size)[edge.n + 1]
       IN  edge' = [edge EXCEPT
                       !.n = edge.n + 1,
                       !.t = EdgeTrace(edge.h, cfg.world_size,
                                       edge.ray[1] * d, edge.ray[2] * d),
                       !.prev = edge.t]
    /\ UNCHANGED <<noiseField, call, cfg, hashSalt, q, rng, run, procs, mesh, tess>>

NextEdge ==
    \/ EdgeSum
    \/ EdgeStep

SpecEdge == InitEdge /\ [][NextEdge]_vars

\* half the world and the inner edge of the falloff band, in tenths of a stud
EdgeHalf == Div(cfg.world_size * PosScale, 2)
EdgeInner == Div(EdgeHalf * 800, Unit)

BandPair ==
    /\ edge.n >= 2
    /\ edge.prev.d >= EdgeInner
    /\ edge.prev.d < edge.t.d
    /\ edge.t.d <= EdgeHalf

---------------------------------------------------------------------------
(* SpecHeight: the sub-peaks of the ranges *)

\* range k passed the gate dist < radius * 1.5 in the trace t
Gated(t, k) == InRange(cfg.ranges[k], t.x, t.y)

\* C19: sub-peak placement. For every range that is evaluated and every i
\* in 0 .. peaks - 1, sub-peak i is placed at the angle
\* (i / peaks) * 2 pi + jitter(name, i) around the range's centre, at a
\* distance in [0.3 * radius, 0.8 * radius) from it, both derived from the
\* same hash of name and index; exactly `peaks` sub-peaks are gone through
\* per range; and the positions are the same on every query within a run.
C19_SubPeakPlacement ==
    Queried =>
        \A k \in 1 .. Len(cfg.ranges) :
            LET mtn == cfg.ranges[k]
                sp == q.t.subpeaks[k]
                r == mtn.radius * PosScale
            IN  /\ Gated(q.t, k) =>
                      /\ Len(sp) = mtn.peaks
                      /\ \A i \in 0 .. mtn.peaks - 1 :
                            LET hash == PyHash(hashSalt, mtn.name, i + 1)
                                jitter == Div(hash * 5730, Unit)
                                p == sp[i + 1]
                                from_centre ==
                                    Hypot(p.pos[1] - mtn.center[1] * PosScale,
                                          p.pos[2] - mtn.center[2] * PosScale)
                            IN  /\ p.angle = Div(i * 360, mtn.peaks) + jitter
                                /\ p.peak_dist
                                      = Div(r * (300 + 5 * (hash % 100)), Unit)
                                /\ 10 * p.peak_dist >= 3 * r
                                /\ 10 * p.peak_dist < 8 * r
                                /\ Abs(from_centre - p.peak_dist) <= 2 * PosScale
                /\ (q.n >= 2 /\ Gated(q.t, k) /\ Gated(q.prev, k)) =>
                      sp = q.prev.subpeaks[k]

\* C19 witness: two queries in a row inside a range of the shipped table
\* with 5 sub-peaks, one of them placed by a negative hash
C19_Witness ==
    /\ q.n >= 2
    /\ cfg.ranges = MOUNTAIN_RANGES
    /\ Gated(q.t, 1) /\ Gated(q.prev, 1)
    /\ <<q.t.x, q.t.y>> # <<q.prev.x, q.prev.y>>
    /\ Len(q.t.subpeaks[1]) = 5
    /\ q.t.subpeaks[1] = q.prev.subpeaks[1]
    /\ \E i \in 0 .. 4 : PyHash(hashSalt, cfg.ranges[1].name, i + 1) < 0

---------------------------------------------------------------------------
(* SpecNoise: the recurrences of the noise primitives *)

\* the ridged recurrence on a sequence of per-octave noise values: octave i
\* adds (1 - |n_i|)^2 times the previous octave's weighted value (1 before
\* the first octave) with amplitude 0.5^i
RECURSIVE WeightedRidge(_, _, _, _)
WeightedRidge(samples, i, prev, amplitude) ==
    IF i > Len(samples) THEN 0
    ELSE LET n == MulU(RidgeFold(samples[i]), prev)
         IN  MulU(n, amplitude)
                 + WeightedRidge(samples, i + 1, n, MulU(amplitude, 500))

\* C21: the ridged recurrence is the same in all three generators. In every
\* returned call of ridged_multifractal (dream), ridged_multifractal (epic)
\* and ridged_noise (generate_terrain), each octave's folded value is
\* multiplied by the previous octave's weighted value (1 before the first)
\* and added with amplitude 0.5^i, so the total is the one the recurrence
\* gives on the call's sequence of noise values, whichever function it is.
C21_SameRidgedRecurrence ==
    (call.done /\ call.fn \in RidgedFns) =>
        /\ \A i \in 1 .. Len(call.st.terms) :
              call.st.terms[i]
                  = MulU(RidgeFold(call.st.samples[i]),
                         IF i = 1 THEN Unit ELSE call.st.terms[i - 1])
        /\ call.result = WeightedRidge(call.st.samples, 1, Unit, Unit)

\* C21 divergence: a call of generate_terrain.ridged_noise added its second
\* octave unweighted, and returned more than the recurrence gives on the
\* same noise values
C21_RidgedNoiseUnweighted ==
    /\ call.done /\ call.fn = "ridged_noise"
    /\ call.a.octaves >= 2
    /\ call.st.terms[1] < Unit
    /\ call.st.terms[2] = RidgeFold(call.st.samples[2])
    /\ call.st.terms[2] > MulU(RidgeFold(call.st.samples[2]), call.st.terms[1])
    /\ call.result > WeightedRidge(call.st.samples, 1, Unit, Unit)

\* v multiplied k times by the factor m (in thousandths)
RECURSIVE TimesPow(_, _, _)
TimesPow(v, m, k) == IF k = 0 THEN v ELSE TimesPow(MulU(v, m), m, k - 1)

\* C22: per-octave seeds. In every returned call of an fbm implementation,
\* octave i is sampled at lacunarity^i times the first octave's frequency,
\* with amplitude persistence^i, and with a seed offset that differs from
\* the seed offset of every other octave of that call.
C22_PerOctaveSeeds ==
    (call.done /\ call.fn \in FbmFns) =>
        LET st == call.st
        IN  /\ Len(st.seeds) = call.a.octaves
            /\ \A i \in 1 .. call.a.octaves :
                  /\ st.freqs[i] = TimesPow(st.freqs[1], call.a.lacunarity, i - 1)
                  /\ st.amps[i] = TimesPow(Unit, call.a.persistence, i - 1)
            /\ \A i, j \in 1 .. call.a.octaves :
                  i # j => st.seeds[i] # st.seeds[j]

\* C22 divergence: a call of an fbm implementation other than the dream
\* generator's sampled two octaves, at different frequencies, with one seed
C22_OctavesShareSeed ==
    /\ call.done /\ call.fn \in {"epic_fbm", "fbm_noise"}
    /\ call.a.octaves >= 2
    /\ call.st.freqs[1] # call.st.freqs[2]
    /\ call.st.seeds[1] = call.st.seeds[2]

\* C23: independent warp fields. domain_warp computes its x displacement and
\* its y displacement from two fbm fields such that no octave of the x field
\* is sampled with the same seed as any octave of the y field, and each
\* displacement component has magnitude at most strength * scale.
C23_IndependentWarpFields ==
    (call.done /\ call.fn = "domain_warp") =>
        LET a == call.a
            warp_x == call.result[1] - a.x
            warp_y == call.result[2] - a.y
        IN  /\ \A i \in 1 .. Len(call.st.x.seeds), j \in 1 .. Len(call.st.y.seeds) :
                  call.st.x.seeds[i] # call.st.y.seeds[j]
            /\ warp_x = MulU(MulU(fbm_result(call.st.x), a.strength),
                             a.scale * PosScale)
            /\ warp_y = MulU(MulU(fbm_result(call.st.y), a.strength),
                             a.scale * PosScale)
            /\ Abs(warp_x) <= MulU(a.strength, a.scale * PosScale)
            /\ Abs(warp_y) <= MulU(a.strength, a.scale * PosScale)

\* C23 divergence: the second and third octave of the x field were sampled
\* with the seeds of the first and second octave of the y field
C23_WarpFieldsShareSeeds ==
    /\ call.done /\ call.fn = "domain_warp"
    /\ Len(call.st.x.seeds) = 3 /\ Len(call.st.y.seeds) = 3
    /\ call.st.x.seeds[2] = call.st.y.seeds[1]
    /\ call.st.x.seeds[3] = call.st.y.seeds[2]
    /\ call.st.x.seeds[1] # call.st.y.seeds[1]

---------------------------------------------------------------------------
(* SpecPeaks: calculate_height under a table of one range, queried around
   the range's centre, rim and gate and around each of its sub-peaks *)

PeakRanges ==
    { [SummitRange EXCEPT !.style = st, !.peaks = n] :
          st \in {"volcanic", "jagged", "eroded"}, n \in {1, 3} }
    \cup { [SummitRange EXCEPT !.style = st] : st \in {"ridged", "massive"} }
    \cup {MOUNTAIN_RANGES[3], MOUNTAIN_RANGES[5]}

\* a valley of width 20 along the radius of a range that the queries follow
ValleyAlong(mtn) ==
    [CarveValley EXCEPT !.start = mtn.center,
                        !.end = <<mtn.center[1] + mtn.radius, mtn.center[2]>>,
                        !.width = 20]

\* the points around sub-peak i of a range: its centre, one stud beside it,
\* a quarter of the radius further out from the range's centre, and the
\* edge of its bump
AroundSubPeak(mtn, salt, i) ==
    LET pos == SubPeakPos(mtn, salt, i)
        angle == SubPeakAngle(mtn, salt, i)
        r == mtn.radius * PosScale
    IN  << pos, <<pos[1] + PosScale, pos[2]>>,
           <<pos[1] + MulU(Cos(angle), r \div 4), pos[2] + MulU(Sin(angle), r \div 4)>>,
           <<pos[1] + Div(r * 300, Unit), pos[2]>> >>

RECURSIVE AroundSubPeaks(_, _, _)
AroundSubPeaks(mtn, salt, i) ==
    IF i >= mtn.peaks THEN <<>>
    ELSE AroundSubPeak(mtn, salt, i) \o AroundSubPeaks(mtn, salt, i + 1)

\* the points along the x axis through the range's centre: the centre, the
\* rim (influence 0.9), just inside the crater, half way out, the edge of
\* the primary cone, inside the gate, on the gate and beyond it
AlongRadius(mtn) ==
    LET cx == mtn.center[1] * PosScale
        cy == mtn.center[2] * PosScale
        r == mtn.radius * PosScale
    IN  << <<cx, cy>>, <<cx + r \div 10, cy>>, <<cx + r \div 10 - 1, cy>>,
           <<cx + r \div 2, cy>>, <<cx + r, cy>>, <<cx + Div(r * 12, 10), cy>>,
           <<cx + Div(r * 15, 10), cy>>, <<cx + Div(r * 16, 10), cy>> >>

InitPeaks ==
    /\ noiseField \in TessNoiseFields
    /\ hashSalt \in 0 .. MaxSalt
    /\ \E mtn \in PeakRanges :
          /\ cfg = [world_size |-> WORLD_SIZE, ranges |-> <<mtn>>,
                    valleys |-> <<ValleyAlong(mtn)>> \o RIVER_VALLEYS]
          /\ q = [points |-> AlongRadius(mtn) \o AroundSubPeaks(mtn, hashSalt, 0),
                  n |-> 0, t |-> NoTrace, prev |-> NoTrace]
    /\ call = Unused
    /\ rng = Unused
    /\ run = Unused
    /\ procs = Unused
    /\ mesh = Unused
    /\ tess = Unused
    /\ edge = Unused

SpecPeaks == InitPeaks /\ [][NextHeight]_vars

\* the only range of the table
TheRange == cfg.ranges[1]

\* the distance from the last queried point to the centre of sub-peak i
SubDist(i) ==
    LET pos == SubPeakPos(TheRange, hashSalt, i)
    IN  Hypot(Qx - pos[1], Qy - pos[2])

\* sub-peak i's bump at the last queried point, as C24 states it:
\* (1 - sub_dist / (0.3 * radius))^2 * 0.6 * peak_height below 0.3 * radius
Bump(i) ==
    LET sub_radius == Div(TheRange.radius * PosScale * 300, Unit)
    IN  IF SubDist(i) < sub_radius
        THEN Div(Sq(Unit - Div(SubDist(i) * Unit, sub_radius))
                     * TheRange.peak_height * 600, Unit)
        ELSE 0

Bumps == {Bump(i) : i \in 0 .. TheRange.peaks - 1}

\* C24: per-range blend. A range's contribution at (x, y) is
\* max(primary, every sub-peak bump), where sub-peak i contributes
\* (1 - sub_dist / (0.3 * radius))^2 * 0.6 * peak_height when sub_dist is
\* below 0.3 * radius and nothing otherwise; each bump is at most
\* 0.6 * peak_height and reaches it only at the sub-peak's own centre, and
\* the contribution is never below the primary curve.
C24_PerRangeBlend ==
    (Queried /\ Gated(q.t, 1)) =>
        LET primary == PrimaryHeight(TheRange, hashSalt, Qx, Qy)
        IN  /\ q.t.mountains = SetMax({0, primary} \cup Bumps)
            /\ q.t.mountains >= primary
            /\ \A i \in 0 .. TheRange.peaks - 1 :
                  /\ Bump(i) = SubPeakHeight(TheRange, hashSalt, i, Qx, Qy)
                  /\ Bump(i) <= 600 * TheRange.peak_height
                  /\ Bump(i) = 600 * TheRange.peak_height => SubDist(i) = 0
                  /\ SubDist(i) = 0 => Bump(i) = 600 * TheRange.peak_height

\* C24 witness: the query at a sub-peak's own centre, where the bump is
\* 0.6 * peak_height and is what the range contributes, above the primary
C24_Witness ==
    /\ Queried /\ Gated(q.t, 1)
    /\ \E i \in 0 .. TheRange.peaks - 1 :
          /\ SubDist(i) = 0
          /\ q.t.mountains = 600 * TheRange.peak_height
          /\ q.t.mountains > PrimaryHeight(TheRange, hashSalt, Qx, Qy)

\* the radial influence of the only range at the last queried point
InfluenceHere ==
    Influence(Hypot(Qx - TheRange.center[1] * PosScale,
                    Qy - TheRange.center[2] * PosScale),
              TheRange.radius)

\* the last query was the k-th of the points along the radius of a volcanic
\* range (1: the centre, 2: the rim, 3: just inside the crater)
VolcanicQuery(k) == TheRange.style = "volcanic" /\ q.n = k

---------------------------------------------------------------------------
(* SpecSegment: distance_to_line_segment applied to one point and one
   segment, both drawn from a grid that holds zero-length segments, points on
   the segment, points whose foot falls inside it and points beyond either
   end *)

\* the coordinates of the segment's end points and of the point (tenths)
SegmentEnds == {-100, 0, 100}
SegmentProbes == {-200, -100, -50, 0, 50, 100, 200}

SegmentArgs ==
    [px : SegmentProbes, py : SegmentProbes,
     x1 : SegmentEnds, y1 : SegmentEnds, x2 : SegmentEnds, y2 : SegmentEnds]

InitSegment ==
    /\ noiseField = Unused
    /\ call \in {NoiseCall("distance_to_line_segment", a) : a \in SegmentArgs}
    /\ cfg = Unused
    /\ hashSalt = Unused
    /\ q = Unused
    /\ rng = Unused
    /\ run = Unused
    /\ procs = Unused
    /\ mesh = Unused
    /\ tess = Unused
    /\ edge = Unused

\* one call of distance_to_line_segment
CallSegment ==
    /\ Pending("distance_to_line_segment")
    /\ LET a == call.a
       IN  call' = Returned(<<>>,
                     distance_to_line_segment(a.px, a.py, a.x1, a.y1, a.x2, a.y2))
    /\ UNCHANGED <<noiseField, cfg, hashSalt, q, rng, run, procs, mesh, tess, edge>>

NextSegment == CallSegment

SpecSegment == InitSegment /\ [][NextSegment]_vars

\* the call of distance_to_line_segment has returned
SegmentReturned == call.fn = "distance_to_line_segment" /\ call.done

\* (p - a) . (b - a), |b - a|^2 and (p - a) x (b - a) of the call's arguments
SegmentDot == (call.a.px - call.a.x1) * (call.a.x2 - call.a.x1)
                + (call.a.py - call.a.y1) * (call.a.y2 - call.a.y1)
SegmentLengthSq == (call.a.x2 - call.a.x1) * (call.a.x2 - call.a.x1)
                     + (call.a.y2 - call.a.y1) * (call.a.y2 - call.a.y1)
SegmentCross == (call.a.px - call.a.x1) * (call.a.y2 - call.a.y1)
                  - (call.a.py - call.a.y1) * (call.a.x2 - call.a.x1)

\* the distances from the point to the two end points
ToStart == Hypot(call.a.px - call.a.x1, call.a.py - call.a.y1)
ToEnd == Hypot(call.a.px - call.a.x2, call.a.py - call.a.y2)

\* C26: distance_to_line_segment returns the distance to the closest point
\* of the segment, with the projection parameter clamped to [0, 1]: the
\* result is never negative, is 0 for a point on the segment, is at most the
\* distance to either end point and equals the distance to the nearer end
\* point when the foot of the perpendicular falls outside the segment; for
\* a zero-length segment it is the distance to that point.
C26_SegmentDistance ==
    SegmentReturned =>
        /\ call.result >= 0
        /\ call.result <= ToStart /\ call.result <= ToEnd
        /\ SegmentLengthSq = 0 => call.result = ToStart
        /\ (SegmentLengthSq > 0 /\ SegmentCross = 0
              /\ SegmentDot >= 0 /\ SegmentDot <= SegmentLengthSq)
               => call.result = 0
        /\ (SegmentLengthSq > 0 /\ SegmentDot <= 0)
               => call.result = ToStart /\ ToStart <= ToEnd
        /\ (SegmentLengthSq > 0 /\ SegmentDot >= SegmentLengthSq)
               => call.result = ToEnd /\ ToEnd <= ToStart

\* C26 witness: a point off the line whose foot falls beyond the end of a
\* segment of positive length: the distance returned is the one to the end
C26_Witness ==
    /\ SegmentReturned
    /\ SegmentLengthSq > 0 /\ SegmentDot > SegmentLengthSq /\ SegmentCross # 0
    /\ call.result = ToEnd /\ call.result > 0 /\ call.result < ToStart

---------------------------------------------------------------------------
(* SpecPeaks: the range gate *)

\* the distance from the last queried point to the centre of the range
DistHere ==
    Hypot(Qx - TheRange.center[1] * PosScale, Qy - TheRange.center[2] * PosScale)

\* what the range would contribute at the last queried point without the
\* test dist < radius * 1.5: the primary and every sub-peak, evaluated
Ungated ==
    subpeak_loop(TheRange, hashSalt, 0,
                 PrimaryHeight(TheRange, hashSalt, Qx, Qy), Qx, Qy)

\* C27: the range gate loses nothing. For a range of positive radius,
\* wherever the radial influence is positive or some sub-peak bump is
\* positive, dist < 1.5 * radius: skipping the range at dist >= 1.5 * radius
\* never changes what calculate_mountain_height returns.
C27_GateLosesNothing ==
    (Queried /\ TheRange.radius > 0) =>
        /\ (InfluenceHere > 0 \/ \E i \in 0 .. TheRange.peaks - 1 : Bump(i) > 0)
              => 2 * DistHere < 3 * TheRange.radius * PosScale
        /\ q.t.mountains = Max(0, Ungated)

\* C27 witness: a point beyond the primary cone (dist >= radius, influence
\* 0) that a sub-peak still raises, inside the gate
C27_Witness ==
    /\ Queried /\ TheRange.radius > 0
    /\ DistHere >= TheRange.radius * PosScale
    /\ InfluenceHere = 0
    /\ \E i \in 0 .. TheRange.peaks - 1 : Bump(i) > 0
    /\ q.t.mountains > 0

---------------------------------------------------------------------------
(* SpecPeaks: signs *)

\* C28: mountains never lower terrain. For a positive peak_height, every
\* style and every noise value in [-1, 1], the primary contribution and
\* every sub-peak contribution of a range are >= 0 and so is
\* calculate_mountain_height; calculate_valley_depth is in [0, 40].
C28_NeverLower ==
    (Queried /\ TheRange.peak_height > 0) =>
        /\ Gated(q.t, 1) => PrimaryHeight(TheRange, hashSalt, Qx, Qy) >= 0
        /\ \A i \in 0 .. TheRange.peaks - 1 :
              SubPeakHeight(TheRange, hashSalt, i, Qx, Qy) >= 0
        /\ q.t.mountains >= 0
        /\ q.t.valley_depth >= 0
        /\ q.t.valley_depth <= MAX_VALLEY_DEPTH * Unit

\* C28 witness: an eroded range under a noise field of -1 everywhere, at a
\* point that the primary raises and a valley carves, but not to its floor
C28_Witness ==
    /\ Queried
    /\ TheRange.style = "eroded"
    /\ \A c \in 0 .. NoiseCells - 1 : noiseField[c] = -Unit
    /\ PrimaryHeight(TheRange, hashSalt, Qx, Qy) > 0
    /\ q.t.mountains > 0
    /\ q.t.valley_depth > 0
    /\ q.t.valley_depth < MAX_VALLEY_DEPTH * Unit

---------------------------------------------------------------------------
(* SpecHeight: the frame of the two corrections *)

\* the last queried point is outside the falloff band:
\* max(|x|, |y|) <= 0.8 * world_size / 2
OutsideBand == 5 * Max(Abs(Qx), Abs(Qy)) <= 2 * cfg.world_size * PosScale

\* the last queried point is outside the spawn region: sqrt(x^2 + y^2) >= 100
OutsideSpawn ==
    Qx * Qx + Qy * Qy >= (SPAWN_RADIUS * PosScale) * (SPAWN_RADIUS * PosScale)

\* C29: the corrections leave the interior untouched. Outside the falloff
\* band and outside the spawn region calculate_height returns exactly
\* base + hills + detail + mountains - valley_depth; inside the spawn region
\* a value that is already >= 5 is returned unchanged by the spawn clamp.
C29_InteriorUntouched ==
    Queried =>
        LET layers == q.t.base + q.t.hills + q.t.detail + q.t.mountains
                        - q.t.valley_depth
        IN  /\ OutsideBand => q.t.edged = layers
            /\ (OutsideBand /\ OutsideSpawn) => q.t.result = layers
            /\ (~OutsideSpawn /\ q.t.edged >= SPAWN_MIN_HEIGHT * Unit)
                  => q.t.result = q.t.edged

\* C29 witness: an interior point outside the spawn region whose layers sum
\* to less than the spawn floor, returned as it is
C29_Witness ==
    /\ Queried
    /\ OutsideBand /\ OutsideSpawn
    /\ q.t.sum < SPAWN_MIN_HEIGHT * Unit
    /\ q.t.mountains > 0
    /\ q.t.result = q.t.sum

---------------------------------------------------------------------------
(* generate_epic_terrain.generate_heightmap: coordinates are normalised to
   [-0.5, 0.5] and, like the heights, held in thousandths; seeds are in
   thousandths as well (seed 42 is 42 * Unit) *)

\* generate_epic_terrain.swiss_turbulence: one octave of the loop
swiss_octave(x, y, seed, st) ==
    LET eps == 10
        sx == MulU(x, st.frequency) + seed + st.dx_sum
        sy == MulU(y, st.frequency) + seed + st.dy_sum
        n == Noise(sx, sy, 0)
        dx == Noise(sx + eps, sy, 0) - n
        dy == Noise(sx, sy + eps, 0) - n
    IN  [total     |-> st.total + MulU(n, st.amplitude),
         dx_sum    |-> st.dx_sum + MulU(MulU(dx, st.amplitude), 500),
         dy_sum    |-> st.dy_sum + MulU(MulU(dy, st.amplitude), 500),
         amplitude |-> MulU(st.amplitude, 500),
         frequency |-> MulU(st.frequency, 2000)]

RECURSIVE swiss_loop(_, _, _, _, _, _)
swiss_loop(x, y, octaves, seed, st, i) ==
    IF i >= octaves THEN st
    ELSE swiss_loop(x, y, octaves, seed, swiss_octave(x, y, seed, st), i + 1)

\* generate_epic_terrain.swiss_turbulence(x, y, octaves, seed)
swiss_turbulence(x, y, octaves, seed) ==
    swiss_loop(x, y, octaves, seed,
               [total |-> 0, dx_sum |-> 0, dy_sum |-> 0,
                amplitude |-> Unit, frequency |-> Unit], 0).total

\* generate_epic_terrain.voronoi_ridges(x, y, scale, seed)
voronoi_ridges(x, y, scale, seed) ==
    LET n1 == Noise(MulU(x, scale) + seed, MulU(y, scale) + seed, 0)
        n2 == Noise(MulU(MulU(x, scale), 1500) + seed + 100 * Unit,
                    MulU(MulU(y, scale), 1500) + seed + 100 * Unit, 0)
    IN  Abs(n1 - n2)

\* generate_heightmap: peak_positions, (px, py, intensity)
peak_positions ==
    << <<300, -400, 1000>>, <<400, -200, 850>>, <<200, 200, 700>>,
       <<350, 350, 950>>, <<-350, 300, 500>> >>

\* generate_heightmap: what one peak proposes at (x, y) (0: out of reach)
PeakAt(peak, x, y, seed) ==
    LET dist == Hypot(x - peak[1], y - peak[2])
        peak_h == MulU(Sq(Unit - DivU(dist, 300)), peak[3])
    IN  IF dist < 300
        THEN MulU(peak_h,
                  Unit + MulU(epic_ridged_multifractal(x * 10 + peak[1],
                                                       y * 10 + peak[2], 6,
                                                       seed + 400 * Unit), 300))
        ELSE 0

RECURSIVE peak_loop(_, _, _, _, _)
peak_loop(k, peak_influence, x, y, seed) ==
    IF k > Len(peak_positions) THEN peak_influence
    ELSE peak_loop(k + 1,
                   Max(peak_influence, PeakAt(peak_positions[k], x, y, seed)),
                   x, y, seed)

\* generate_heightmap: the layers of one cell, combined, before the falloff
EpicLayers(x, y, seed) ==
    LET base == MulU(epic_fbm(x * 2, y * 2, 0, 4, 500, 2000, seed), 300)
        ridges == MulU(epic_ridged_multifractal(x * 3, y * 3, 6,
                                                seed + 100 * Unit), 500)
        erosion == MulU(swiss_turbulence(x * 5, y * 5, 5, seed + 200 * Unit), 150)
        valleys == MulU(voronoi_ridges(x * 4, y * 4, Unit, seed + 300 * Unit), 200)
        h == base + MulU(ridges, 500 + base) - MulU(valleys, 300) + erosion
    IN  MulU(h, 400) + MulU(peak_loop(1, 0, x, y, seed), 600)

\* mutant of EpicFalloff: the height is scaled towards 0 at the edges and
\* nothing is subtracted
EpicFalloff_scale_only(h, x, y) ==
    LET dist_from_center == MulU(Hypot(x, y), 1500)
        falloff == Max(0, Unit - DivU(dist_from_center - 700, 300))
    IN  IF dist_from_center > 700 THEN MulU(h, falloff) ELSE h

\* generate_heightmap: distance falloff, h *= falloff; h -= (1 - falloff) * 0.1
EpicFalloff(h, x, y) ==
    LET dist_from_center == MulU(Hypot(x, y), 1500)
        falloff == Max(0, Unit - DivU(dist_from_center - 700, 300))
    IN  IF dist_from_center > 700
        THEN MulU(h, falloff) - MulU(Unit - falloff, 100)
        ELSE h

\* generate_heightmap: x = (-half + ix * step) / size
EpicCoord(size, resolution, ix) ==
    LET step == Div(size * Unit, resolution)
        half == Div(size * Unit, 2)
    IN  Div(-half + ix * step, size)

\* generate_heightmap: the value appended for cell (ix, iy), max(-0.1, h)
EpicCell(size, resolution, seed, ix, iy) ==
    LET x == EpicCoord(size, resolution, ix)
        y == EpicCoord(size, resolution, iy)
    IN  Max(-100, EpicFalloff(EpicLayers(x, y, seed), x, y))

---------------------------------------------------------------------------
(* SpecEpic: one call of generate_epic_terrain.generate_heightmap, cell by
   cell, for a few sizes, resolutions and seeds under every noise field with
   its cells at the extremes of the noise range *)

\* bound of the model: the largest resolution of a heightmap
MaxEpicResolution == 4

EpicArgs ==
    [size : {1000, 2000}, resolution : 1 .. MaxEpicResolution,
     seed : {0, 42 * Unit}]

InitEpic ==
    /\ noiseField \in TessNoiseFields
    /\ \E a \in EpicArgs :
          call = [NoiseCall("generate_heightmap", a) EXCEPT
                     !.st = [pc |-> "seed", ix |-> 0, iy |-> 0, row |-> <<>>,
                             heightmap |-> <<>>]]
    /\ rng \in 0 .. MaxRngSeed
    /\ cfg = Unused
    /\ hashSalt = Unused
    /\ q = Unused
    /\ run = Unused
    /\ procs = Unused
    /\ mesh = Unused
    /\ tess = Unused
    /\ edge = Unused

\* random.seed(seed); heightmap = []
EpicSeed ==
    /\ Pending("generate_heightmap")
    /\ call.st.pc = "seed"
    /\ rng' = Div(call.a.seed, Unit) % RngMod
    /\ call' = [call EXCEPT !.st.pc = "cells"]
    /\ UNCHANGED <<noiseField, cfg, hashSalt, q, run, procs, mesh, tess, edge>>

\* one pass of the inner loop: the cell (ix, iy) is appended to the row, and
\* the row to the heightmap after its last cell
EpicAppend ==
    /\ Pending("generate_heightmap")
    /\ call.st.pc = "cells"
    /\ call.st.iy <= call.a.resolution
    /\ \E cell \in {EpicCell(call.a.size, call.a.resolution, call.a.seed,
                             call.st.ix, call.st.iy)} :
          LET row == Append(call.st.row, cell)
          IN  call' = [call EXCEPT !.st =
                         IF call.st.ix = call.a.resolution
                         THEN [pc |-> "cells", ix |-> 0, iy |-> call.st.iy + 1,
                               row |-> <<>>,
                               heightmap |-> Append(call.st.heightmap, row)]
                         ELSE [call.st EXCEPT !.ix = call.st.ix + 1, !.row = row]]
    /\ UNCHANGED <<noiseField, cfg, hashSalt, q, rng, run, procs, mesh, tess, edge>>

\* return heightmap
EpicReturn ==
    /\ Pending("generate_heightmap")
    /\ call.st.pc = "cells"
    /\ call.st.iy > call.a.resolution
    /\ call' = Returned(call.st, call.st.heightmap)
    /\ UNCHANGED <<noiseField, cfg, hashSalt, q, rng, run, procs, mesh, tess, edge>>

NextEpic == EpicSeed \/ EpicAppend \/ EpicReturn

SpecEpic == InitEpic /\ [][NextEpic]_vars

\* generate_heightmap has returned
EpicReturned == call.fn = "generate_heightmap" /\ call.done

\* the normalised radial distance of cell (ix, iy), times 1.5, is >= 1.0:
\* x = (2 * ix - resolution) / (2 * resolution), and the same for y
AtFloorDistance(ix, iy) ==
    LET res == call.a.resolution
    IN  9 * ((2 * ix - res) * (2 * ix - res) + (2 * iy - res) * (2 * iy - res))
            >= 16 * res * res

\* C30: epic heightmap floor. generate_heightmap(size, resolution, seed)
\* returns resolution + 1 rows of resolution + 1 cells each; every cell is
\* >= -0.1, and every cell whose normalised radial distance times 1.5 is
\* >= 1.0, the four corners among them, is exactly -0.1, whatever the noise
\* values are.
C30_HeightmapFloor ==
    EpicReturned =>
        LET res == call.a.resolution
            heightmap == call.result
        IN  /\ Len(heightmap) = res + 1
            /\ \A iy \in 1 .. Len(heightmap) :
                  /\ Len(heightmap[iy]) = res + 1
                  /\ \A ix \in 1 .. Len(heightmap[iy]) :
                        /\ heightmap[iy][ix] >= -100
                        /\ AtFloorDistance(ix - 1, iy - 1)
                              => heightmap[iy][ix] = -100
            /\ \A iy \in {0, res} : \A ix \in {0, res} : AtFloorDistance(ix, iy)

\* C30 witness: a returned heightmap with its four corners on the floor,
\* a cell above sea level and a cell of the falloff ring below it
C30_Witness ==
    /\ EpicReturned
    /\ call.a.resolution = MaxEpicResolution
    /\ \A iy \in {1, MaxEpicResolution + 1} : \A ix \in {1, MaxEpicResolution + 1} :
          call.result[iy][ix] = -100
    /\ \E iy, ix \in 1 .. MaxEpicResolution + 1 : call.result[iy][ix] > 0
    /\ \E iy, ix \in 1 .. MaxEpicResolution + 1 :
          /\ ~AtFloorDistance(ix - 1, iy - 1)
          /\ call.result[iy][ix] < 0

=============================================================================
